---- MODULE Spec2Model ----
(***************************************************************************)
(* Verification model of the freqmoda streaming engine:                    *)
(*   - streaming-engine/src/streamingpath/params.rs  (Params: extraction   *)
(*     from the request, from_path, decode, merge_with, to_query, Display) *)
(*   - streaming-engine/src/routes/streamingpath.rs  (streamingpath_handler)*)
(*                                                                         *)
(* Strings whose structure the code inspects (paths, keys, query keys) are *)
(* sequences of string fragments; the string is their concatenation.       *)
(* Strings the code only copies or parses as a whole are TLA+ strings.     *)
(***************************************************************************)
EXTENDS Integers, Sequences, FiniteSets, TLC

VARIABLES
    req,          \* per request slot: position in the handler and its locals
    storage,      \* the blob store: storage key -> blob
    invocations,  \* number of processor.process calls started so far
    completed,    \* Params values whose result a finished request has stored
    semaphore,    \* permits left in the processor's admission semaphore
    pin,          \* input of the pure-function checks (parse / merge)
    pout,         \* their output
    cache,        \* the result cache: its memory tier and its disk tier
    chat,         \* the gateway: conversations, messages, chat requests
    pipe,         \* one run of the audio pipeline
    sink,         \* the pipeline's in-memory output buffer
    handles,      \* native handles of one pipeline invocation
    limiter,      \* the web front end's per-IP rate limiter
    quota         \* the web front end's per-session request counter

vars == <<req, storage, invocations, completed, semaphore, pin, pout, cache, chat, pipe,
          sink, handles, limiter, quota>>

\* the state outside the streaming engine's request path
restVars == <<sink, handles, limiter, quota>>

\* the state of the streaming path and of the pure-function checks
engineVars == <<req, storage, invocations, completed, semaphore, pin, pout>>

(***************************************************************************)
(* Bounds                                                                  *)
(***************************************************************************)
NReq == 2

Reqs == 1..NReq

(***************************************************************************)
(* Option<T>, Result<T,E> and typed values                                 *)
(***************************************************************************)
None == [some |-> FALSE]

Some(v) == [some |-> TRUE, v |-> v]

Ok(v) == [ok |-> TRUE, v |-> v]

Err(e) == [ok |-> FALSE, e |-> e]

I32(n) == [t |-> "i32", n |-> n]

\* f64: finite values in thousandths, or NaN / +inf / -inf
F64(m) == [t |-> "f64", cls |-> "fin", milli |-> m]

NaN == [t |-> "f64", cls |-> "nan", milli |-> 0]

Inf == [t |-> "f64", cls |-> "inf", milli |-> 0]

Bool(b) == [t |-> "bool", b |-> b]

Str(s) == [t |-> "str", s |-> s]

Fmt(s) == [t |-> "fmt", s |-> s]

(***************************************************************************)
(* Sequence helpers (str::split, starts_with, trim_start_matches)          *)
(***************************************************************************)
StartsWith(s, pat) ==
    /\ Len(s) >= Len(pat)
    /\ SubSeq(s, 1, Len(pat)) = pat

RECURSIVE TrimStartMatches(_, _)
TrimStartMatches(s, pat) ==
    IF Len(pat) > 0 /\ StartsWith(s, pat)
    THEN TrimStartMatches(SubSeq(s, Len(pat) + 1, Len(s)), pat)
    ELSE s

\* path.split("/").last(): the fragments after the last "/"
RECURSIVE SplitLast(_)
SplitLast(s) ==
    IF \E i \in 1..Len(s) : s[i] = "/"
    THEN SplitLast(Tail(s))
    ELSE s

(***************************************************************************)
(* Params (params.rs:69-152)                                               *)
(***************************************************************************)
FormatFields == {"format"}

I32Fields == {"sample_rate", "channels", "bit_rate", "bit_depth", "compression_level"}

F64Fields == {"quality", "start_time", "duration", "speed", "volume",
              "normalize_level", "lowpass", "highpass", "bass", "treble",
              "fade_in", "fade_out", "cross_fade"}

BoolFields == {"reverse", "normalize"}

StrFields == {"codec", "bandpass", "echo", "chorus", "flanger", "phaser",
              "tremolo", "compressor", "noise_reduction"}

ScalarFields == FormatFields \cup I32Fields \cup F64Fields \cup BoolFields \cup StrFields

EmptyMap == [k \in {} |-> ""]

\* Params { key, ..Default::default() }
DefaultParams(key) ==
    [key            |-> key,
     opt            |-> [f \in ScalarFields |-> None],
     custom_filters |-> None,
     custom_options |-> None,
     tags           |-> None]

(***************************************************************************)
(* Library conversions, tabulated on the strings the model feeds them      *)
(***************************************************************************)
\* str::parse::<i32>().ok()   (params.rs:260-265)
ParseI32(s) ==
    CASE s = "0"      -> Some(I32(0))
      [] s = "1"      -> Some(I32(1))
      [] s = "2"      -> Some(I32(2))
      [] s = "9"      -> Some(I32(9))
      [] s = "-1"     -> Some(I32(-1))
      [] s = "5"      -> Some(I32(5))
      [] s = "48000"  -> Some(I32(48000))
      [] s = "200000" -> Some(I32(200000))
      [] OTHER        -> None

\* str::parse::<f64>().ok()   (params.rs:264-287); Rust parses "NaN" and "inf"
ParseF64(s) ==
    CASE s = "0"      -> Some(F64(0))
      [] s = "1"      -> Some(F64(1000))
      [] s = "2"      -> Some(F64(2000))
      [] s = "9"      -> Some(F64(9000))
      [] s = "-1"     -> Some(F64(-1000))
      [] s = "5"      -> Some(F64(5000))
      [] s = "0.5"    -> Some(F64(500))
      [] s = "0.8"    -> Some(F64(800))
      [] s = "48000"  -> Some(F64(48000000))
      [] s = "200000" -> Some(F64(200000000))
      [] s = "NaN"    -> Some(NaN)
      [] s = "inf"    -> Some(Inf)
      [] OTHER        -> None

AudioFormatNames == {"mp3", "wav", "flac", "ogg", "m4a", "opus"}

\* value.parse::<AudioFormat>().unwrap_or(AudioFormat::Mp3)   (params.rs:257)
ParseAudioFormat(s) == IF s \in AudioFormatNames THEN Fmt(s) ELSE Fmt("mp3")

(***************************************************************************)
(* JSON documents, as serde_json sees them                                 *)
(***************************************************************************)
JNull == [j |-> "null"]

JStr(s) == [j |-> "str", s |-> s]

JNum(isInt, milli) == [j |-> "num", isInt |-> isInt, milli |-> milli]

JBool(b) == [j |-> "bool", b |-> b]

JArr(items) == [j |-> "arr", items |-> items]

JObj(m) == [j |-> "obj", m |-> m]

Malformed == [kind |-> "malformed"]

Object(obj) == [kind |-> "object", obj |-> obj]

\* general_purpose::URL_SAFE_NO_PAD.decode   (params.rs:580-582)
Base64Decode(s) ==
    IF s \in {"invalid-base64!", "a+b/", "e30="} THEN Err("Failed to decode base64")
    ELSE Ok(s)

\* String::from_utf8   (params.rs:583-584); "__4" is base64 of the bytes ff fe
FromUtf8(bytes) ==
    IF bytes = "__4" THEN Err("Invalid UTF-8 in decoded data")
    ELSE Ok(bytes)

\* The JSON text each valid blob carries
JsonOf(s) ==
    CASE s = "aW52YWxpZCBqc29u" -> Malformed                \* invalid json
      [] s = "e30"              -> Object(EmptyMap)         \* {}
      [] s = "eyJrZXkiOjF9"     -> Object([k \in {"key"} |-> JNum(TRUE, 1000)])
      [] s = "b64{key:k.mp3,channels:1.5}" ->
             Object([k \in {"key", "channels"} |->
                        IF k = "key" THEN JStr(<<"k.mp3">>) ELSE JNum(FALSE, 1500)])
      [] s = "b64{key:k.mp3,volume:null,bogus:1}" ->
             Object([k \in {"key", "volume", "bogus"} |->
                        CASE k = "key" -> JStr(<<"k.mp3">>)
                          [] k = "volume" -> JNull
                          [] OTHER -> JNum(TRUE, 1000)])
      [] s = "b64{key:original.mp3,format:wav,volume:0.8,reverse:true}" ->
             Object([k \in {"key", "format", "volume", "reverse"} |->
                        CASE k = "key" -> JStr(<<"original.mp3">>)
                          [] k = "format" -> JStr("wav")
                          [] k = "volume" -> JNum(FALSE, 800)
                          [] OTHER -> JBool(TRUE)])
      [] s = "b64{key:https://h/a.mp3,format:wav}" ->
             Object([k \in {"key", "format"} |->
                        IF k = "key"
                        THEN JStr(<<"https:", "/", "/", "h", "/", "a.mp3">>)
                        ELSE JStr("wav")])
      [] s = "b64{key:o.mp3,sample_rate:48000,tags:{a:base,c:3},custom_filters:[f1,f2]}" ->
             Object([k \in {"key", "sample_rate", "tags", "custom_filters"} |->
                        CASE k = "key" -> JStr(<<"o.mp3">>)
                          [] k = "sample_rate" -> JNum(TRUE, 48000000)
                          [] k = "tags" ->
                               JObj([t \in {<<"a">>, <<"c">>} |->
                                        IF t = <<"a">> THEN JStr("base") ELSE JStr("3")])
                          [] OTHER -> JArr(<<JStr("f1"), JStr("f2")>>)])
      [] s = "b64{key:test.mp3}" ->
             Object([k \in {"key"} |-> JStr(<<"test.mp3">>)])
      [] s = "b64{key:test.mp3,format:wav,volume:0.8,lowpass:1000.0,reverse:true}" ->
             Object([k \in {"key", "format", "volume", "lowpass", "reverse"} |->
                        CASE k = "key" -> JStr(<<"test.mp3">>)
                          [] k = "format" -> JStr("wav")
                          [] k = "volume" -> JNum(FALSE, 800)
                          [] k = "lowpass" -> JNum(FALSE, 1000000)
                          [] OTHER -> JBool(TRUE)])
      [] s = "b64{key:test.mp3,format:flac,sample_rate:48000,custom_filters:[f1],custom_options:[o1],tags:{a:x,c:z}}" ->
             Object([k \in {"key", "format", "sample_rate", "custom_filters",
                            "custom_options", "tags"} |->
                        CASE k = "key" -> JStr(<<"test.mp3">>)
                          [] k = "format" -> JStr("flac")
                          [] k = "sample_rate" -> JNum(TRUE, 48000000)
                          [] k = "custom_filters" -> JArr(<<JStr("f1")>>)
                          [] k = "custom_options" -> JArr(<<JStr("o1")>>)
                          [] OTHER ->
                               JObj([t \in {<<"a">>, <<"c">>} |->
                                        IF t = <<"a">> THEN JStr("x") ELSE JStr("z")])])
      [] s = "b64{key:a.mp3,speed:null}" ->
             Object([k \in {"key", "speed"} |->
                        IF k = "key" THEN JStr(<<"a.mp3">>) ELSE JNull])
      [] s = "b64{key:a.mp3,speed:2.0}" ->
             Object([k \in {"key", "speed"} |->
                        IF k = "key" THEN JStr(<<"a.mp3">>) ELSE JNum(FALSE, 2000)])
      [] OTHER -> Malformed

EncodedValues ==
    {"invalid-base64!", "a+b/", "e30=", "__4", "aW52YWxpZCBqc29u", "e30",
     "eyJrZXkiOjF9", "b64{key:k.mp3,channels:1.5}",
     "b64{key:k.mp3,volume:null,bogus:1}",
     "b64{key:original.mp3,format:wav,volume:0.8,reverse:true}",
     "b64{key:https://h/a.mp3,format:wav}",
     "b64{key:o.mp3,sample_rate:48000,tags:{a:base,c:3},custom_filters:[f1,f2]}"}

\* serde: one Option<T> field of Params from a JSON value (derive(Deserialize),
\* params.rs:69-152): null is None, a value of the wrong JSON type is an error
DeserializeField(f, jv) ==
    IF jv.j = "null" THEN Ok(None)
    ELSE IF f \in FormatFields
    THEN IF jv.j = "str" /\ jv.s \in AudioFormatNames THEN Ok(Some(Fmt(jv.s))) ELSE Err("format")
    ELSE IF f \in I32Fields
    THEN IF jv.j = "num" /\ jv.isInt THEN Ok(Some(I32(jv.milli \div 1000))) ELSE Err("i32")
    ELSE IF f \in F64Fields
    THEN IF jv.j = "num" THEN Ok(Some(F64(jv.milli))) ELSE Err("f64")
    ELSE IF f \in BoolFields
    THEN IF jv.j = "bool" THEN Ok(Some(Bool(jv.b))) ELSE Err("bool")
    ELSE IF jv.j = "str" THEN Ok(Some(Str(jv.s))) ELSE Err("string")

\* Option<Vec<String>>
DeserializeVec(jv) ==
    IF jv.j = "null" THEN Ok(None)
    ELSE IF jv.j = "arr" /\ \A i \in 1..Len(jv.items) : jv.items[i].j = "str"
    THEN Ok(Some([i \in 1..Len(jv.items) |-> jv.items[i].s]))
    ELSE Err("vec")

\* Option<HashMap<String, String>>
DeserializeMap(jv) ==
    IF jv.j = "null" THEN Ok(None)
    ELSE IF jv.j = "obj" /\ \A k \in DOMAIN jv.m : jv.m[k].j = "str"
    THEN Ok(Some([k \in DOMAIN jv.m |-> jv.m[k].s]))
    ELSE Err("map")

\* serde_json::from_str::<Params>: `key` is required, the Option fields may be
\* absent, unknown fields are ignored
DeserializeParams(doc) ==
    IF doc.kind # "object" THEN Err("Failed to parse JSON")
    ELSE LET obj == doc.obj
             has(f) == f \in DOMAIN obj
             fld(f) == IF has(f) THEN DeserializeField(f, obj[f]) ELSE Ok(None)
             cf == IF has("custom_filters") THEN DeserializeVec(obj["custom_filters"]) ELSE Ok(None)
             co == IF has("custom_options") THEN DeserializeVec(obj["custom_options"]) ELSE Ok(None)
             tg == IF has("tags") THEN DeserializeMap(obj["tags"]) ELSE Ok(None)
         IN IF ~has("key") \/ obj["key"].j # "str" THEN Err("Failed to parse JSON")
            ELSE IF (\E f \in ScalarFields : ~fld(f).ok) \/ ~cf.ok \/ ~co.ok \/ ~tg.ok
            THEN Err("Failed to parse JSON")
            ELSE Ok([key            |-> obj["key"].s,
                     opt            |-> [f \in ScalarFields |-> fld(f).v],
                     custom_filters |-> cf.v,
                     custom_options |-> co.v,
                     tags           |-> tg.v])

\* decode with the JSON error swallowed (unwrap_or_default instead of `?`)
decode_or_default(encoded) ==
    LET decoded_bytes == Base64Decode(encoded)
    IN IF ~decoded_bytes.ok THEN Err(decoded_bytes.e)
       ELSE LET json == FromUtf8(decoded_bytes.v)
                params == IF json.ok THEN DeserializeParams(JsonOf(json.v))
                          ELSE Err(json.e)
            IN IF params.ok THEN params ELSE Ok(DefaultParams(<<>>))

\* Params::decode   (params.rs:579-588)
decode(encoded) ==
    LET decoded_bytes == Base64Decode(encoded)
    IN IF ~decoded_bytes.ok THEN Err(decoded_bytes.e)
       ELSE LET json == FromUtf8(decoded_bytes.v)
            IN IF ~json.ok THEN Err(json.e)
               ELSE DeserializeParams(JsonOf(json.v))

(***************************************************************************)
(* Params::encode   (params.rs:560-563)                                    *)
(***************************************************************************)
\* serde_json: one Some(value) as a JSON value; a float that is NaN or
\* infinite is written as null
SerializeValue(v) ==
    CASE v.t = "i32"  -> JNum(TRUE, v.n * 1000)
      [] v.t = "f64"  -> IF v.cls = "fin" THEN JNum(FALSE, v.milli) ELSE JNull
      [] v.t = "bool" -> JBool(v.b)
      [] v.t = "fmt"  -> JStr(v.s)
      [] OTHER        -> JStr(v.s)

SerializeVec(items) == JArr([i \in 1..Len(items) |-> JStr(items[i])])

SerializeMap(m) == JObj([k \in DOMAIN m |-> JStr(m[k])])

\* serde_json::to_string(self): derive(Serialize) with
\* skip_serializing_if = "Option::is_none" on every Option field
\* (params.rs:68-152)
SerializeParams(self) ==
    LET fields == {"key"} \cup {f \in ScalarFields : self.opt[f].some}
                  \cup (IF self.custom_filters.some THEN {"custom_filters"} ELSE {})
                  \cup (IF self.custom_options.some THEN {"custom_options"} ELSE {})
                  \cup (IF self.tags.some THEN {"tags"} ELSE {})
    IN Object([k \in fields |->
                  CASE k = "key" -> JStr(self.key)
                    [] k = "custom_filters" -> SerializeVec(self.custom_filters.v)
                    [] k = "custom_options" -> SerializeVec(self.custom_options.v)
                    [] k = "tags" -> SerializeMap(self.tags.v)
                    [] OTHER -> SerializeValue(self.opt[k].v)])

\* the blobs that encode produces in the model
EncodedBlobs ==
    {"b64{key:test.mp3}",
     "b64{key:test.mp3,format:wav,volume:0.8,lowpass:1000.0,reverse:true}",
     "b64{key:test.mp3,format:flac,sample_rate:48000,custom_filters:[f1],custom_options:[o1],tags:{a:x,c:z}}",
     "b64{key:a.mp3,speed:null}",
     "b64{key:a.mp3,speed:2.0}"}

\* general_purpose::URL_SAFE_NO_PAD.encode(json.as_bytes()): the blob that
\* carries this JSON text
Base64Encode(json) == CHOOSE s \in EncodedBlobs : JsonOf(s) = json

encode(self) == Ok(Base64Encode(SerializeParams(self)))

(***************************************************************************)
(* Params::merge_with   (params.rs:621-734)                                *)
(***************************************************************************)
MapExtend(m, other) ==
    [k \in (DOMAIN m) \cup (DOMAIN other) |-> IF k \in DOMAIN other THEN other[k] ELSE m[k]]

\* merge_with with the tag maps extended the wrong way round: the base's tags win
merge_with_base_wins(self, other) ==
    [key            |-> IF other.key # <<>> THEN other.key ELSE self.key,
     opt            |-> [f \in ScalarFields |->
                            IF other.opt[f].some THEN other.opt[f] ELSE self.opt[f]],
     custom_filters |-> IF other.custom_filters.some THEN other.custom_filters
                        ELSE self.custom_filters,
     custom_options |-> IF other.custom_options.some THEN other.custom_options
                        ELSE self.custom_options,
     tags           |-> IF other.tags.some
                        THEN Some(MapExtend(other.tags.v,
                                            IF self.tags.some THEN self.tags.v ELSE EmptyMap))
                        ELSE self.tags]

merge_with(self, other) ==
    [key            |-> IF other.key # <<>> THEN other.key ELSE self.key,
     opt            |-> [f \in ScalarFields |->
                            IF other.opt[f].some THEN other.opt[f] ELSE self.opt[f]],
     custom_filters |-> IF other.custom_filters.some THEN other.custom_filters
                        ELSE self.custom_filters,
     custom_options |-> IF other.custom_options.some THEN other.custom_options
                        ELSE self.custom_options,
     tags           |-> IF other.tags.some
                        THEN Some(MapExtend(IF self.tags.some THEN self.tags.v ELSE EmptyMap,
                                            other.tags.v))
                        ELSE self.tags]

(***************************************************************************)
(* Params::from_path   (params.rs:222-312)                                 *)
(***************************************************************************)
\* form_urlencoded::parse(..).collect::<HashMap<_, _>>(): a repeated key keeps
\* its last value   (params.rs:44-48)
RECURSIVE CollectQuery(_)
CollectQuery(pairs) ==
    IF pairs = <<>> THEN EmptyMap
    ELSE LET init == CollectQuery(SubSeq(pairs, 1, Len(pairs) - 1))
             last == pairs[Len(pairs)]
         IN [k \in (DOMAIN init) \cup {last[1]} |-> IF k = last[1] THEN last[2] ELSE init[k]]

\* the right-hand sides of the match arms   (params.rs:255-287)
ParseField(f, value) ==
    IF f \in FormatFields THEN Some(ParseAudioFormat(value))
    ELSE IF f \in I32Fields THEN ParseI32(value)
    ELSE IF f \in F64Fields THEN ParseF64(value)
    ELSE IF f \in BoolFields THEN Some(Bool(value = "true" \/ value = "1"))
    ELSE Some(Str(value))

Push(optvec, value) ==
    Some(Append(IF optvec.some THEN optvec.v ELSE <<>>, value))

\* one iteration of `for (key, value) in query`   (params.rs:249-308)
ApplyQueryEntry(explicit_params, key, value) ==
    IF key = <<"encoded">> THEN explicit_params
    ELSE IF Len(key) = 1 /\ key[1] \in ScalarFields
    THEN [explicit_params EXCEPT !.opt[key[1]] = ParseField(key[1], value)]
    ELSE IF StartsWith(key, <<"tag_">>)
    THEN LET tag_key == TrimStartMatches(key, <<"tag_">>)
             cur == IF explicit_params.tags.some THEN explicit_params.tags.v ELSE EmptyMap
         IN [explicit_params EXCEPT
                !.tags = Some([k \in (DOMAIN cur) \cup {tag_key} |->
                                  IF k = tag_key THEN value ELSE cur[k]])]
    ELSE IF StartsWith(key, <<"filter_">>)
    THEN [explicit_params EXCEPT !.custom_filters = Push(explicit_params.custom_filters, value)]
    ELSE IF StartsWith(key, <<"option_">>)
    THEN [explicit_params EXCEPT !.custom_options = Push(explicit_params.custom_options, value)]
    ELSE explicit_params

\* the loop, visiting the HashMap's entries in the iteration order `order`
RECURSIVE QueryLoop(_, _, _)
QueryLoop(explicit_params, query, order) ==
    IF order = <<>> THEN explicit_params
    ELSE QueryLoop(ApplyQueryEntry(explicit_params, Head(order), query[Head(order)]),
                   query, Tail(order))

\* every order in which a HashMap with these keys may be iterated
Orders(S) ==
    {o \in [1..Cardinality(S) -> S] : \A i, j \in 1..Cardinality(S) : i # j => o[i] # o[j]}

\* the decoded Params kept as they are, the blob's key included
KeyFromBlob(base_params, path) == base_params

\* base_params.key = path.split("/").last()   (params.rs:236-240)
KeyFromPath(base_params, path) == [base_params EXCEPT !.key = SplitLast(path)]

from_path(path, query, order) ==
    LET dec == IF <<"encoded">> \in DOMAIN query
               THEN decode(query[<<"encoded">>])
               ELSE Ok(DefaultParams(SplitLast(path)))
    IN IF ~dec.ok THEN Err(dec.e)
       ELSE LET base_params == IF <<"encoded">> \in DOMAIN query
                               THEN KeyFromPath(dec.v, path)
                               ELSE dec.v
                explicit_params == QueryLoop(DefaultParams(base_params.key), query, order)
            IN Ok(merge_with(base_params, explicit_params))

\* FromRequestParts for Params   (params.rs:28-59): Ok(params) or the rejection
from_request_parts(uri_path, query_pairs, order) ==
    LET path == TrimStartMatches(TrimStartMatches(uri_path, <<"/", "params">>), <<"/", "meta">>)
        params == from_path(path, CollectQuery(query_pairs), order)
    IN IF params.ok THEN params
       ELSE [ok |-> FALSE, status |-> 400, e |-> params.e]

(***************************************************************************)
(* Params::to_query and Display for Params   (params.rs:154-169, 314-420)  *)
(***************************************************************************)
\* i32::to_string
I32ToString(n) ==
    CASE n = 0      -> "0"
      [] n = 1      -> "1"
      [] n = 2      -> "2"
      [] n = 9      -> "9"
      [] n = -1     -> "-1"
      [] n = 5      -> "5"
      [] n = 48000  -> "48000"
      [] n = 200000 -> "200000"
      [] OTHER      -> "i32"

\* f64::to_string
F64ToString(x) ==
    IF x.cls = "nan" THEN "NaN"
    ELSE IF x.cls = "inf" THEN "inf"
    ELSE CASE x.milli = 0         -> "0"
           [] x.milli = 1000      -> "1"
           [] x.milli = 2000      -> "2"
           [] x.milli = 9000      -> "9"
           [] x.milli = -1000     -> "-1"
           [] x.milli = 5000      -> "5"
           [] x.milli = 500       -> "0.5"
           [] x.milli = 800       -> "0.8"
           [] x.milli = 48000000  -> "48000"
           [] x.milli = 200000000 -> "200000"
           [] OTHER               -> "f64"

ValueToString(v) ==
    CASE v.t = "i32"  -> I32ToString(v.n)
      [] v.t = "f64"  -> F64ToString(v)
      [] v.t = "bool" -> IF v.b THEN "true" ELSE "false"
      [] v.t = "fmt"  -> v.s
      [] OTHER        -> v.s

\* urlencoding::encode, on the strings of the model
UrlEncode(s) ==
    CASE s = "0.6:0.3:1000:0.3" -> "0.6%3A0.3%3A1000%3A0.3"
      [] s = "a b"              -> "a%20b"
      [] s = "0.8:0.88:60:0.4" -> "0.8%3A0.88%3A60%3A0.4"
      [] s = "0.8:0.9:1000:0.5" -> "0.8%3A0.9%3A1000%3A0.5"
      [] s = "0.5:0.9:50:0.4:0.25:2" -> "0.5%3A0.9%3A50%3A0.4%3A0.25%3A2"
      [] s = "0.7:0.9:50:0.4:0.25:2" -> "0.7%3A0.9%3A50%3A0.4%3A0.25%3A2"
      [] s = "0.9:0.9:50:0.4:0.25:2" -> "0.9%3A0.9%3A50%3A0.4%3A0.25%3A2"
      [] s = "0.5:0.75:2:0.25:2" -> "0.5%3A0.75%3A2%3A0.25%3A2"
      [] s = "0.7:0.75:3:0.25:2" -> "0.7%3A0.75%3A3%3A0.25%3A2"
      [] s = "0.9:0.75:4:0.25:2" -> "0.9%3A0.75%3A4%3A0.25%3A2"
      [] OTHER                  -> s

\* the HashMap<String, Vec<String>> that to_query builds
to_query(self) ==
    LET set == {f \in ScalarFields : self.opt[f].some}
        tagkeys == IF self.tags.some THEN DOMAIN self.tags.v ELSE {}
        keys == {<<f>> : f \in set}
                \cup (IF self.custom_filters.some THEN {<<"custom_filters">>} ELSE {})
                \cup (IF self.custom_options.some THEN {<<"custom_options">>} ELSE {})
                \cup {<<"tag_">> \o k : k \in tagkeys}
    IN [k \in keys |->
           IF k = <<"custom_filters">> THEN self.custom_filters.v
           ELSE IF k = <<"custom_options">> THEN self.custom_options.v
           ELSE IF Head(k) = "tag_" THEN <<self.tags.v[Tail(k)]>>
           ELSE <<ValueToString(self.opt[k[1]].v)>>]

\* "k=v" for every value of one entry
RECURSIVE EntryItems(_, _)
EntryItems(k, vals) ==
    IF vals = <<>> THEN <<>>
    ELSE <<k \o <<"=", UrlEncode(Head(vals))>>>> \o EntryItems(k, Tail(vals))

\* flat_map over the entries in the map's iteration order `order`
RECURSIVE QueryItems(_, _)
QueryItems(query, order) ==
    IF order = <<>> THEN <<>>
    ELSE EntryItems(Head(order), query[Head(order)]) \o QueryItems(query, Tail(order))

\* items.join("&")
RECURSIVE Join(_)
Join(items) ==
    IF items = <<>> THEN <<>>
    ELSE IF Len(items) = 1 THEN items[1]
    ELSE items[1] \o <<"&">> \o Join(Tail(items))

\* Display::fmt: "{key}?{query_str}", the entries taken in the iteration order
\* of the HashMap that to_query returned
Display(self, order) ==
    self.key \o <<"?">> \o Join(QueryItems(to_query(self), order))

DisplayOrders(self) == Orders(DOMAIN to_query(self))

(***************************************************************************)
(* FromStr for Params   (params.rs:171-194)                                *)
(***************************************************************************)
\* str::split(sep): the parts between the occurrences of the fragment sep
RECURSIVE Split(_, _)
Split(s, sep) ==
    IF \E i \in 1..Len(s) : s[i] = sep
    THEN LET i == CHOOSE i \in 1..Len(s) :
                      s[i] = sep /\ \A j \in 1..(i - 1) : s[j] # sep
         IN <<SubSeq(s, 1, i - 1)>> \o Split(SubSeq(s, i + 1, Len(s)), sep)
    ELSE <<s>>

\* percent-decoding, on the strings of the model
UrlDecode(s) ==
    CASE s = "0.6%3A0.3%3A1000%3A0.3" -> "0.6:0.3:1000:0.3"
      [] s = "a%20b"                  -> "a b"
      [] s = "0.8%3A0.88%3A60%3A0.4" -> "0.8:0.88:60:0.4"
      [] s = "0.8%3A0.9%3A1000%3A0.5" -> "0.8:0.9:1000:0.5"
      [] s = "0.5%3A0.9%3A50%3A0.4%3A0.25%3A2" -> "0.5:0.9:50:0.4:0.25:2"
      [] s = "0.7%3A0.9%3A50%3A0.4%3A0.25%3A2" -> "0.7:0.9:50:0.4:0.25:2"
      [] s = "0.9%3A0.9%3A50%3A0.4%3A0.25%3A2" -> "0.9:0.9:50:0.4:0.25:2"
      [] s = "0.5%3A0.75%3A2%3A0.25%3A2" -> "0.5:0.75:2:0.25:2"
      [] s = "0.7%3A0.75%3A3%3A0.25%3A2" -> "0.7:0.75:3:0.25:2"
      [] s = "0.9%3A0.75%3A4%3A0.25%3A2" -> "0.9:0.75:4:0.25:2"
      [] OTHER                        -> s

\* one "name=value" item: the name up to the first "=", the decoded value
QueryPair(item) ==
    IF \E i \in 1..Len(item) : item[i] = "="
    THEN LET i == CHOOSE i \in 1..Len(item) :
                      item[i] = "=" /\ \A j \in 1..(i - 1) : item[j] # "="
         IN <<SubSeq(item, 1, i - 1),
              IF i < Len(item) THEN UrlDecode(item[i + 1]) ELSE "">>
    ELSE <<item, "">>

\* form_urlencoded::parse: the pairs of the non-empty items between "&"
FormParse(qs) ==
    LET items == SelectSeq(Split(qs, "&"), LAMBDA it : it # <<>>)
    IN [i \in 1..Len(items) |-> QueryPair(items[i])]

\* the HashMap<String, String> that from_str hands to from_path
FromStrQuery(s) ==
    LET parts == Split(s, "?")
    IN IF Len(parts) <= 1 THEN EmptyMap ELSE CollectQuery(FormParse(parts[2]))

\* Params::from_str(s), the query entries visited in the order `order`
from_str(s, order) ==
    LET parts == Split(s, "?")
        path  == TrimStartMatches(parts[1], <<"/">>)
        audio == Split(path, "/")[Len(Split(path, "/"))]
    IN from_path(audio, FromStrQuery(s), order)

(***************************************************************************)
(* streamingpath::hasher                                                   *)
(***************************************************************************)
\* SHA-1 as a collision-free digest of its input
Sha1(bytes) == <<"sha1">> \o bytes

\* the result key: the key with the digest of the rendered Params as suffix
suffix_result_storage_hasher(p, order) ==
    [name |-> p.key, suffix |-> Sha1(Display(p, order))]

\* the storage key of a source
SourceKey(key) == [name |-> key, suffix |-> <<>>]

(***************************************************************************)
(* Effect presets of the gateway   (gateway-service)                       *)
(***************************************************************************)
\* ClaudeService::get_effect_presets   (services/claude.rs:198-220)
EffectPresets ==
    [effect \in {"echo", "chorus", "flanger"} |->
        [name \in {"light", "medium", "heavy"} |->
            CASE effect = "echo" /\ name = "light"     -> "0.6:0.3:1000:0.3"
              [] effect = "echo" /\ name = "medium"    -> "0.8:0.88:60:0.4"
              [] effect = "echo" /\ name = "heavy"     -> "0.8:0.9:1000:0.5"
              [] effect = "chorus" /\ name = "light"   -> "0.5:0.9:50:0.4:0.25:2"
              [] effect = "chorus" /\ name = "medium"  -> "0.7:0.9:50:0.4:0.25:2"
              [] effect = "chorus" /\ name = "heavy"   -> "0.9:0.9:50:0.4:0.25:2"
              [] effect = "flanger" /\ name = "light"  -> "0.5:0.75:2:0.25:2"
              [] effect = "flanger" /\ name = "medium" -> "0.7:0.75:3:0.25:2"
              [] OTHER                                 -> "0.9:0.75:4:0.25:2"]]

\* str::to_lowercase, on the strings of the model
ToLowercase(s) ==
    CASE s = "Light" -> "light"
      [] s = "HEAVY" -> "heavy"
      [] OTHER       -> s

\* apply_effect_presets, for one string parameter of the tool call
\* (services/streaming_engine.rs:277-298)
apply_effect_presets(key, value) ==
    IF key \in DOMAIN EffectPresets /\ ToLowercase(value) \in DOMAIN EffectPresets[key]
    THEN EffectPresets[key][ToLowercase(value)]
    ELSE value

(***************************************************************************)
(* The result cache (spec 4.E): a memory tier in front of a disk tier,     *)
(* each a list of entries from the least to the most recently used         *)
(***************************************************************************)
\* the three caps (ProcessorSettings.max_cache_files, max_cache_size,
\* max_cache_mem), scaled down
MaxFiles == 2

MaxSize == 4

MaxMem == 3

MaxEntryBytes == 5

CacheKeys == {"k1", "k2", "k3"}

EmptyCache == [mem |-> <<>>, disk |-> <<>>, last |-> [op |-> "none"]]

RECURSIVE Bytes(_)
Bytes(tier) == IF tier = <<>> THEN 0 ELSE Head(tier).bytes + Bytes(Tail(tier))

Holds(tier, k) == \E i \in 1..Len(tier) : tier[i].k = k

Without(tier, k) == SelectSeq(tier, LAMBDA e : e.k # k)

Entry(tier, k) == tier[CHOOSE i \in 1..Len(tier) : tier[i].k = k]

\* move k to the most-recently-used end
Touch(tier, k) == IF Holds(tier, k) THEN Append(Without(tier, k), Entry(tier, k)) ELSE tier

\* evict least recently used entries until the memory cap holds
RECURSIVE EvictMem(_)
EvictMem(tier) ==
    IF tier # <<>> /\ Bytes(tier) > MaxMem THEN EvictMem(Tail(tier)) ELSE tier

\* the disk eviction with the byte cap forgotten
RECURSIVE EvictDisk_files_only(_)
EvictDisk_files_only(tier) ==
    IF tier # <<>> /\ Len(tier) > MaxFiles THEN EvictDisk_files_only(Tail(tier)) ELSE tier

\* evict least recently used entries until both disk caps hold
RECURSIVE EvictDisk(_)
EvictDisk(tier) ==
    IF tier # <<>> /\ (Len(tier) > MaxFiles \/ Bytes(tier) > MaxSize)
    THEN EvictDisk(Tail(tier))
    ELSE tier

\* set(fingerprint, bytes, ttl)
set(c, k, n) ==
    LET e    == [k |-> k, bytes |-> n]
        mem  == EvictMem(Append(Without(c.mem, k), e))
        disk == EvictDisk(Append(Without(c.disk, k), e))
    IN [mem |-> mem, disk |-> disk,
        last |-> [op |-> "set", k |-> k,
                  evicted_mem |-> Len(Without(c.mem, k)) + 1 - Len(mem),
                  evicted_disk |-> Len(Without(c.disk, k)) + 1 - Len(disk)]]

\* get(fingerprint): a hit in memory, or a hit on disk that is promoted
get(c, k) ==
    IF Holds(c.mem, k)
    THEN [mem |-> Touch(c.mem, k), disk |-> Touch(c.disk, k),
          last |-> [op |-> "get", k |-> k, hit |-> "mem"]]
    ELSE IF Holds(c.disk, k)
    THEN [mem |-> EvictMem(Append(c.mem, Entry(c.disk, k))), disk |-> Touch(c.disk, k),
          last |-> [op |-> "get", k |-> k, hit |-> "disk"]]
    ELSE [mem |-> c.mem, disk |-> c.disk, last |-> [op |-> "get", k |-> k, hit |-> "miss"]]

\* delete(fingerprint): removes from both tiers
delete(c, k) ==
    [mem |-> Without(c.mem, k), disk |-> Without(c.disk, k),
     last |-> [op |-> "delete", k |-> k]]

CacheSet ==
    /\ \E k \in CacheKeys, n \in 1..MaxEntryBytes : cache' = set(cache, k, n)
    /\ UNCHANGED <<engineVars, restVars, chat, pipe>>

CacheGet ==
    /\ \E k \in CacheKeys : cache' = get(cache, k)
    /\ UNCHANGED <<engineVars, restVars, chat, pipe>>

CacheDelete ==
    /\ \E k \in CacheKeys : cache' = delete(cache, k)
    /\ UNCHANGED <<engineVars, restVars, chat, pipe>>

NextCache == CacheSet \/ CacheGet \/ CacheDelete

(***************************************************************************)
(* The gateway's chat endpoint: conversations and their messages in the    *)
(* database, and the chat handler step by step (one step per await)        *)
(***************************************************************************)
NChat == 2

ChatReqs == 1..NChat

ConvIds == 1..NChat

\* get_conversation_messages(.., Some(20), None)
HistoryLimit == 20

IdleChatReq ==
    [pc |-> "idle", cid |-> 0, sent |-> <<>>, err |-> "none", after_failure |-> FALSE]

IdleChat ==
    [nconv |-> 0,
     msgs  |-> [i \in ConvIds |-> <<>>],
     reqs  |-> [c \in ChatReqs |-> IdleChatReq]]

\* INSERT INTO messages (conversation_id, role, content)
store_message(msgs, cid, role, c) ==
    [msgs EXCEPT ![cid] = Append(@, [role |-> role, by |-> c])]

\* SELECT .. ORDER BY created_at ASC LIMIT $2 OFFSET 0
get_conversation_messages(msgs, cid, limit) ==
    SubSeq(msgs[cid], 1, IF Len(msgs[cid]) < limit THEN Len(msgs[cid]) ELSE limit)

\* a handler that undoes its user message when the model call fails
OnClaudeError_rollback(msgs, cid, c) ==
    [msgs EXCEPT ![cid] = SelectSeq(@, LAMBDA m : m.by # c)]

\* Err(e) => return Err(e): what is stored stays stored
OnClaudeError(msgs, cid, c) == msgs

ChatFail(c, e) ==
    chat' = [chat EXCEPT !.reqs[c].pc = "failed", !.reqs[c].err = e, !.reqs[c].sent = <<>>]

\* POST /api/chat with a message and an optional conversation id: get the
\* conversation, or create one when no id was given or the id is unknown
ChatRequest(c) ==
    /\ chat.reqs[c].pc = "idle"
    /\ \/ ChatFail(c, "Database")
       \/ \E id \in {None} \cup {Some(i) : i \in ConvIds} :
            LET found == IF id.some THEN id.v <= chat.nconv ELSE FALSE
                cid   == IF found THEN id.v ELSE chat.nconv + 1
            IN chat' = [chat EXCEPT !.nconv = IF found THEN @ ELSE @ + 1,
                                    !.reqs[c].pc = "store_user",
                                    !.reqs[c].cid = cid,
                                    !.reqs[c].after_failure =
                                        /\ found
                                        /\ \E q \in ChatReqs :
                                              /\ chat.reqs[q].pc = "failed"
                                              /\ chat.reqs[q].err = "Claude"
                                              /\ chat.reqs[q].cid = cid]
    /\ UNCHANGED <<engineVars, restVars, cache, pipe>>

\* store the user's message
StoreUserMessage(c) ==
    /\ chat.reqs[c].pc = "store_user"
    /\ \/ ChatFail(c, "Database")
       \/ chat' = [chat EXCEPT !.msgs = store_message(@, chat.reqs[c].cid, "user", c),
                                !.reqs[c].pc = "history"]
    /\ UNCHANGED <<engineVars, restVars, cache, pipe>>

\* read the conversation history that is sent to the model
GetHistory(c) ==
    /\ chat.reqs[c].pc = "history"
    /\ \/ ChatFail(c, "Database")
       \/ chat' = [chat EXCEPT !.reqs[c].sent =
                                    get_conversation_messages(chat.msgs, chat.reqs[c].cid,
                                                              HistoryLimit),
                                !.reqs[c].pc = "send"]
    /\ UNCHANGED <<engineVars, restVars, cache, pipe>>

\* claude.send_message: an error, a text answer (nothing to await before
\* the answer is stored) or an answer with a tool use
SendMessage(c) ==
    /\ chat.reqs[c].pc = "send"
    /\ \/ chat' = [chat EXCEPT !.msgs = OnClaudeError(@, chat.reqs[c].cid, c),
                                !.reqs[c].pc = "failed",
                                !.reqs[c].err = "Claude",
                                !.reqs[c].sent = <<>>]
       \/ \E next \in {"store_assistant", "tool"} :
            chat' = [chat EXCEPT !.reqs[c].pc = next, !.reqs[c].sent = <<>>]
    /\ UNCHANGED <<engineVars, restVars, cache, pipe>>

\* a tool use in the answer: a failing tool ends the request
ToolUse(c) ==
    /\ chat.reqs[c].pc = "tool"
    /\ \/ ChatFail(c, "StreamingEngine")
       \/ chat' = [chat EXCEPT !.reqs[c].pc = "store_assistant"]
    /\ UNCHANGED <<engineVars, restVars, cache, pipe>>

\* store the assistant's response
StoreAssistantMessage(c) ==
    /\ chat.reqs[c].pc = "store_assistant"
    /\ \/ ChatFail(c, "Database")
       \/ chat' = [chat EXCEPT !.msgs = store_message(@, chat.reqs[c].cid, "assistant", c),
                                !.reqs[c].pc = "timestamp"]
    /\ UNCHANGED <<engineVars, restVars, cache, pipe>>

\* update the conversation's timestamp and answer 200
UpdateTimestamp(c) ==
    /\ chat.reqs[c].pc = "timestamp"
    /\ \/ ChatFail(c, "Database")
       \/ chat' = [chat EXCEPT !.reqs[c].pc = "done"]
    /\ UNCHANGED <<engineVars, restVars, cache, pipe>>

NextChat ==
    \E c \in ChatReqs :
        \/ ChatRequest(c)
        \/ StoreUserMessage(c)
        \/ GetHistory(c)
        \/ SendMessage(c)
        \/ ToolUse(c)
        \/ StoreAssistantMessage(c)
        \/ UpdateTimestamp(c)

(***************************************************************************)
(* The transcoding pipeline (AudioProcessor::process): demuxer, decoder,   *)
(* filter graph or resampler, encoder, muxer.  The codec library's buffers *)
(* are counts of frames or packets held; a receive call outside draining   *)
(* mode may answer EAGAIN while something is held, a receive call in       *)
(* draining mode hands out everything held and then answers EOF.           *)
(***************************************************************************)
MaxPackets == 2

\* start_samples and end_samples are counted in frames of one sample;
\* next_frame is the sample index of the next frame the decoder hands out
\* and fed lists the start indices of the frames passed on
IdlePipe ==
    [pc |-> "idle", filters |-> FALSE, differs |-> FALSE, left |-> 0,
     dec |-> 0, fg |-> 0, rs |-> 0, enc |-> 0, out |-> <<>>, drains |-> <<>>,
     start_samples |-> None, end_samples |-> None, samples_processed |-> 0,
     next_frame |-> 0, fed |-> <<>>]

\* opts.start_time and opts.duration, in samples
StartTimes == {None, Some(1)}

Durations == {None, Some(1)}

\* end = start.unwrap_or(0) + duration
EndSamples(start, duration) ==
    IF duration.some
    THEN Some((IF start.some THEN start.v ELSE 0) + duration.v)
    ELSE None

\* the frame leaves the decoder and is passed on
Feed(p) ==
    [p EXCEPT !.dec = @ - 1, !.next_frame = @ + 1, !.fed = Append(@, p.next_frame)]

\* a filter graph is set up if filters are given or the formats differ
filter_graph(p) == p.filters \/ p.differs

\* a resampler is set up if there is no filter graph and the formats differ
resampler(p) == ~filter_graph(p) /\ p.differs

\* check_again: a non-negative code is data, EAGAIN and EOF end the loop,
\* any other code is an error
check_again(code) ==
    CASE code = "data"   -> Ok(TRUE)
      [] code = "EAGAIN" -> Ok(FALSE)
      [] code = "EOF"    -> Ok(FALSE)
      [] OTHER           -> Err(code)

Packets(k) == [i \in 1..k |-> "pkt"]

\* encode_frame: send the frame, then write packets until the encoder
\* answers EAGAIN
encode_frame(p) ==
    {[p EXCEPT !.enc = p.enc + 1 - k, !.out = p.out \o Packets(k)] : k \in 0..(p.enc + 1)}

\* one decoded frame on its way: into the filter graph, through the
\* resampler into the encoder, or straight into the encoder
Route(p, onward, back) ==
    IF filter_graph(p)
    THEN {[p EXCEPT !.fg = p.fg + 1, !.pc = onward]}
    ELSE IF resampler(p)
    THEN UNION {encode_frame([p EXCEPT !.rs = n, !.pc = back]) : n \in 0..1}
    ELSE encode_frame([p EXCEPT !.pc = back])

\* the drain stages with the filter-graph flush left out
StageAfter_no_filter_flush(stage) ==
    CASE stage = "drain_decoder" -> "flush_resampler"
      [] stage = "drain_filter"  -> "flush_resampler"
      [] stage = "flush_resampler" -> "flush_encoder"
      [] stage = "drain_encoder" -> "trailer"

\* the order of the drain stages after the demuxer's EOF
StageAfter(stage) ==
    CASE stage = "drain_decoder" -> "flush_filter"
      [] stage = "drain_filter"  -> "flush_resampler"
      [] stage = "flush_resampler" -> "flush_encoder"
      [] stage = "drain_encoder" -> "trailer"

\* open input, decoder, encoder, filter graph or resampler, write the header
PipeStart ==
    /\ pipe.pc = "idle"
    /\ \E f \in BOOLEAN, d \in BOOLEAN, n \in 0..MaxPackets,
          start \in StartTimes, duration \in Durations :
         pipe' = [IdlePipe EXCEPT !.pc = "read", !.filters = f, !.differs = d,
                                  !.left = n, !.out = <<"header">>,
                                  !.start_samples = start,
                                  !.end_samples = EndSamples(start, duration)]
    /\ UNCHANGED <<engineVars, restVars, cache, chat>>

\* av_read_frame: EOF ends the main loop, a packet is sent to the decoder
ReadFrame ==
    /\ pipe.pc = "read"
    /\ IF pipe.left = 0
       THEN pipe' = [pipe EXCEPT !.pc = "flush_decoder"]
       ELSE pipe' = [pipe EXCEPT !.left = @ - 1, !.dec = @ + 1, !.pc = "receive"]
    /\ UNCHANGED <<engineVars, restVars, cache, chat>>

\* avcodec_receive_frame in the main loop, with trimming
ReceiveFrame ==
    /\ pipe.pc = "receive"
    /\ \/ /\ check_again("EAGAIN") = Ok(FALSE)
          /\ pipe' = [pipe EXCEPT !.pc = "read"]
       \/ /\ pipe.dec > 0
          /\ check_again("data") = Ok(TRUE)
          /\ LET frame_start == pipe.samples_processed
                 frame_end   == frame_start + 1
                 p == [pipe EXCEPT !.samples_processed = frame_end]
                 dropped == [p EXCEPT !.dec = @ - 1, !.next_frame = @ + 1]
             IN IF (IF p.start_samples.some THEN frame_end <= p.start_samples.v ELSE FALSE)
                THEN pipe' = dropped
                ELSE IF (IF p.end_samples.some THEN frame_start >= p.end_samples.v ELSE FALSE)
                THEN pipe' = [dropped EXCEPT !.pc = "read"]
                ELSE pipe' \in Route(Feed(p), "sink", "receive")
    /\ UNCHANGED <<engineVars, restVars, cache, chat>>

\* av_buffersink_get_frame in the main loop and in the decoder flush
GetFilteredFrame ==
    /\ pipe.pc \in {"sink", "drain_sink"}
    /\ \/ /\ check_again("EAGAIN") = Ok(FALSE)
          /\ pipe' = [pipe EXCEPT !.pc = IF pipe.pc = "sink" THEN "receive"
                                                             ELSE "drain_decoder"]
       \/ /\ pipe.fg > 0
          /\ check_again("data") = Ok(TRUE)
          /\ pipe' \in encode_frame([pipe EXCEPT !.fg = @ - 1])
    /\ UNCHANGED <<engineVars, restVars, cache, chat>>

\* flush decoder: send the null packet
FlushDecoder ==
    /\ pipe.pc = "flush_decoder"
    /\ pipe' = [pipe EXCEPT !.pc = "drain_decoder", !.drains = Append(@, "decoder")]
    /\ UNCHANGED <<engineVars, restVars, cache, chat>>

\* receive from the draining decoder until it answers EOF
DrainDecoder ==
    /\ pipe.pc = "drain_decoder"
    /\ IF pipe.dec > 0
       THEN /\ check_again("data") = Ok(TRUE)
            /\ pipe' \in Route(Feed(pipe), "drain_sink", "drain_decoder")
       ELSE /\ check_again("EOF") = Ok(FALSE)
            /\ pipe' = [pipe EXCEPT !.pc = StageAfter("drain_decoder")]
    /\ UNCHANGED <<engineVars, restVars, cache, chat>>

\* flush filter graph: send EOF into the buffer source, if there is a graph
FlushFilterGraph ==
    /\ pipe.pc = "flush_filter"
    /\ IF filter_graph(pipe)
       THEN pipe' = [pipe EXCEPT !.pc = "drain_filter", !.drains = Append(@, "filter")]
       ELSE pipe' = [pipe EXCEPT !.pc = StageAfter("drain_filter")]
    /\ UNCHANGED <<engineVars, restVars, cache, chat>>

\* receive from the closed filter graph until it answers EOF
DrainFilterGraph ==
    /\ pipe.pc = "drain_filter"
    /\ IF pipe.fg > 0
       THEN /\ check_again("data") = Ok(TRUE)
            /\ pipe' \in encode_frame([pipe EXCEPT !.fg = @ - 1])
       ELSE /\ check_again("EOF") = Ok(FALSE)
            /\ pipe' = [pipe EXCEPT !.pc = StageAfter("drain_filter")]
    /\ UNCHANGED <<engineVars, restVars, cache, chat>>

\* flush resampler: one call that hands out what it holds, if there is one
FlushResampler ==
    /\ pipe.pc = "flush_resampler"
    /\ IF resampler(pipe)
       THEN LET p == [pipe EXCEPT !.pc = StageAfter("flush_resampler"), !.rs = 0,
                                  !.drains = Append(@, "resampler")]
            IN pipe' \in (IF pipe.rs > 0 THEN encode_frame(p) ELSE {p})
       ELSE pipe' = [pipe EXCEPT !.pc = StageAfter("flush_resampler")]
    /\ UNCHANGED <<engineVars, restVars, cache, chat>>

\* flush encoder: send the null frame
FlushEncoder ==
    /\ pipe.pc = "flush_encoder"
    /\ pipe' = [pipe EXCEPT !.pc = "drain_encoder", !.drains = Append(@, "encoder")]
    /\ UNCHANGED <<engineVars, restVars, cache, chat>>

\* receive from the draining encoder until it answers EOF, writing packets
DrainEncoder ==
    /\ pipe.pc = "drain_encoder"
    /\ IF pipe.enc > 0
       THEN /\ check_again("data") = Ok(TRUE)
            /\ pipe' = [pipe EXCEPT !.enc = @ - 1, !.out = Append(@, "pkt")]
       ELSE /\ check_again("EOF") = Ok(FALSE)
            /\ pipe' = [pipe EXCEPT !.pc = StageAfter("drain_encoder")]
    /\ UNCHANGED <<engineVars, restVars, cache, chat>>

\* write_trailer and take_output
WriteTrailer ==
    /\ pipe.pc = "trailer"
    /\ pipe' = [pipe EXCEPT !.pc = "done", !.out = Append(@, "trailer"),
                             !.drains = Append(@, "trailer")]
    /\ UNCHANGED <<engineVars, restVars, cache, chat>>

\* any library call answers an error code: the run ends with Err
PipeError ==
    /\ pipe.pc \notin {"idle", "done", "failed"}
    /\ check_again("EINVAL") = Err("EINVAL")
    /\ pipe' = [pipe EXCEPT !.pc = "failed"]
    /\ UNCHANGED <<engineVars, restVars, cache, chat>>

NextPipe ==
    \/ PipeStart
    \/ ReadFrame
    \/ ReceiveFrame
    \/ GetFilteredFrame
    \/ FlushDecoder
    \/ DrainDecoder
    \/ FlushFilterGraph
    \/ DrainFilterGraph
    \/ FlushResampler
    \/ FlushEncoder
    \/ DrainEncoder
    \/ WriteTrailer
    \/ PipeError

(***************************************************************************)
(* The filter string (processor/ffmpeg.rs collect_filters): a sequence of  *)
(* filters, each the text before its argument and the formatted argument   *)
(***************************************************************************)
\* format!("{:.3}"), {:.2}, {:.1} of a float kept in thousandths: unit is
\* 1, 10 or 100 thousandths
FormatF64(x, unit) ==
    IF x.cls # "fin" THEN [cls |-> x.cls, milli |-> 0]
    ELSE [cls |-> "fin",
          milli |-> IF x.milli >= 0
                    THEN ((2 * x.milli + unit) \div (2 * unit)) * unit
                    ELSE 0 - (((2 * (0 - x.milli) + unit) \div (2 * unit)) * unit)]

Filter(name, arg) == [name |-> name, arg |-> arg]

\* the pushes with volume and atempo exchanged
FilterFields_volume_first ==
    <<"volume", "reverse", "speed", "normalize", "lowpass", "highpass", "bandpass",
      "bass", "treble", "echo", "chorus", "flanger", "phaser", "tremolo", "compressor",
      "noise_reduction", "fade_in", "fade_out", "cross_fade">>

\* the Params fields in the order collect_filters looks at them
FilterFields ==
    <<"speed", "reverse", "volume", "normalize", "lowpass", "highpass", "bandpass",
      "bass", "treble", "echo", "chorus", "flanger", "phaser", "tremolo", "compressor",
      "noise_reduction", "fade_in", "fade_out", "cross_fade">>

\* what collect_filters pushes for one field
Emit(params, f) ==
    LET v == params.opt[f] IN
    IF ~v.some THEN <<>>
    ELSE CASE f = "speed" ->
                IF v.v = F64(1000) THEN <<>> ELSE <<Filter("atempo=", FormatF64(v.v, 1))>>
           [] f = "reverse" -> IF v.v.b THEN <<Filter("areverse", "")>> ELSE <<>>
           [] f = "volume" ->
                IF v.v = F64(1000) THEN <<>> ELSE <<Filter("volume=", FormatF64(v.v, 10))>>
           [] f = "normalize" ->
                IF v.v.b
                THEN <<Filter("loudnorm=I=",
                              FormatF64(IF params.opt["normalize_level"].some
                                        THEN params.opt["normalize_level"].v
                                        ELSE F64(-16000), 100))>>
                ELSE <<>>
           [] f = "lowpass"  -> <<Filter("lowpass=f=", FormatF64(v.v, 100))>>
           [] f = "highpass" -> <<Filter("highpass=f=", FormatF64(v.v, 100))>>
           [] f = "bandpass" -> <<Filter("bandpass=", v.v.s)>>
           [] f = "bass"     -> <<Filter("bass=g=", FormatF64(v.v, 100))>>
           [] f = "treble"   -> <<Filter("treble=g=", FormatF64(v.v, 100))>>
           [] f = "echo"     -> <<Filter("aecho=", v.v.s)>>
           [] f = "chorus"   -> <<Filter("chorus=", v.v.s)>>
           [] f = "flanger"  -> <<Filter("flanger=", v.v.s)>>
           [] f = "phaser"   -> <<Filter("aphaser=", v.v.s)>>
           [] f = "tremolo"  -> <<Filter("tremolo=", v.v.s)>>
           [] f = "compressor" -> <<Filter("acompressor=", v.v.s)>>
           [] f = "noise_reduction" -> <<Filter("anlmdn=", v.v.s)>>
           [] f = "fade_in"  -> <<Filter("afade=t=in:d=", FormatF64(v.v, 1))>>
           [] f = "fade_out" -> <<Filter("afade=t=out:d=", FormatF64(v.v, 1))>>
           [] f = "cross_fade" -> <<Filter("acrossfade=d=", FormatF64(v.v, 1))>>

RECURSIVE EmitAll(_, _)
EmitAll(params, fields) ==
    IF fields = <<>> THEN <<>>
    ELSE Emit(params, Head(fields)) \o EmitAll(params, Tail(fields))

\* collect_filters: None when nothing was pushed, else the joined list
collect_filters(params) ==
    LET filters == EmitAll(params, FilterFields)
                   \o (IF params.custom_filters.some
                       THEN [i \in 1..Len(params.custom_filters.v) |->
                                Filter("custom", params.custom_filters.v[i])]
                       ELSE <<>>)
    IN IF filters = <<>> THEN None ELSE Some(filters)

(***************************************************************************)
(* The in-memory output sink (WriteBuffer) behind the muxer's write and    *)
(* seek callbacks.  Bytes are small numbers; 0 is the fill byte.           *)
(***************************************************************************)
MaxSinkBytes == 3

SinkBytes == {1, 2}

EmptySink == [data |-> <<>>, last |-> [op |-> "none"]]

Zeros(n) == [i \in 1..n |-> 0]

\* Write for WriteBuffer: extend_from_slice
write(data, buf) == data \o buf

\* Seek for WriteBuffer: SeekFrom::Start(p) / SeekFrom::End(p); the buffer
\* is resized when the position is beyond its end and the position is
\* returned, nothing else is kept
seek(data, whence, offset) ==
    LET new_pos == IF whence = "SEEK_SET" THEN offset ELSE Len(data) + offset
    IN IF whence \notin {"SEEK_SET", "SEEK_END"} \/ new_pos < 0
       THEN [data |-> data, ret |-> -1]
       ELSE [data |-> IF new_pos > Len(data) THEN data \o Zeros(new_pos - Len(data))
                                             ELSE data,
             ret  |-> new_pos]

\* write_callback
SinkWrite ==
    /\ \E b \in SinkBytes, n \in 1..2 :
         /\ Len(sink.data) + n <= MaxSinkBytes
         /\ sink' = [data |-> write(sink.data, [i \in 1..n |-> b]),
                     last |-> [op |-> "write", before |-> sink.data,
                               buf |-> [i \in 1..n |-> b], at |-> sink.last]]
    /\ UNCHANGED <<engineVars, cache, chat, pipe, handles, limiter, quota>>

\* write_seek_callback
SinkSeek ==
    /\ \E whence \in {"SEEK_SET", "SEEK_CUR", "SEEK_END"}, offset \in -1..MaxSinkBytes :
         LET r == seek(sink.data, whence, offset) IN
         /\ Len(r.data) <= MaxSinkBytes
         /\ sink' = [data |-> r.data,
                     last |-> [op |-> "seek", before |-> sink.data, ret |-> r.ret]]
    /\ UNCHANGED <<engineVars, cache, chat, pipe, handles, limiter, quota>>

NextSink == SinkWrite \/ SinkSeek

(***************************************************************************)
(* Native handles of a pipeline invocation: which are allocated (live) and *)
(* which owning wrappers exist; a wrapper's Drop releases what it owns     *)
(***************************************************************************)
NInvocations == 2

Invocations == 1..NInvocations

NoHandles == [i \in Invocations |-> [pc |-> "start", live |-> {}, wrapped |-> {}, why |-> "none"]]

\* what each wrapper's Drop releases
Owned(w) ==
    CASE w = "InputContext"  -> {"in_buffer", "in_avio", "in_format"}
      [] w = "decoder"       -> {"dec_ctx"}
      [] w = "encoder"       -> {"enc_ctx"}
      [] w = "FilterGraph"   -> {"graph"}
      [] w = "OutputContext" -> {"out_format", "out_buffer", "out_avio", "write_buf"}
      [] w = "frames"        -> {"pkt", "frame", "filt_frame", "enc_pkt"}

\* the function returns: every wrapper in scope is dropped
DropAll(h) ==
    [h EXCEPT !.live = h.live \ UNION {Owned(w) : w \in h.wrapped}, !.wrapped = {}]

\* return Err(..) at a point where the handles in `loose` are allocated
\* and not yet owned by any wrapper
ReturnErr(h, why, loose) ==
    [DropAll(h) EXCEPT !.pc = "failed", !.why = why, !.live = @ \cup loose]

Construct(h, w, pc) ==
    [h EXCEPT !.pc = pc, !.live = @ \cup Owned(w), !.wrapped = @ \cup {w}]

\* InputContext::open: the raw handles that are neither freed by hand nor
\* owned by Self at each return
OpenLoose(failed_at) ==
    CASE failed_at = "av_malloc"                 -> {}
      [] failed_at = "avio_alloc_context"        -> {}
      [] failed_at = "avformat_alloc_context"    -> {}
      [] failed_at = "avformat_open_input"       -> {}
      [] failed_at = "avformat_find_stream_info" -> {"in_buffer", "in_avio", "in_format"}

OpenInput(i) ==
    /\ handles[i].pc = "start"
    /\ \/ \E failed_at \in {"av_malloc", "avio_alloc_context", "avformat_alloc_context",
                              "avformat_open_input", "avformat_find_stream_info"} :
            handles' = [handles EXCEPT ![i] = ReturnErr(@, failed_at, OpenLoose(failed_at))]
       \/ handles' = [handles EXCEPT ![i] = Construct(@, "InputContext", "input")]
    /\ UNCHANGED <<engineVars, cache, chat, pipe, sink, limiter, quota>>

\* CodecContext::new for the decoder and for the encoder
NewCodecs(i) ==
    /\ handles[i].pc = "input"
    /\ \/ handles' = [handles EXCEPT ![i] = ReturnErr(@, "decoder", {})]
       \/ handles' = [handles EXCEPT ![i] =
                          ReturnErr(Construct(@, "decoder", "input"), "encoder", {})]
       \/ handles' = [handles EXCEPT ![i] =
                          Construct(Construct(@, "decoder", "input"), "encoder", "codecs")]
    /\ UNCHANGED <<engineVars, cache, chat, pipe, sink, limiter, quota>>

\* setup_filters, if a filter graph is needed: the graph, the in/out lists,
\* FilterGraph::parse and config.  When avfilter_graph_parse_ptr fails,
\* parse returns before its avfilter_inout_free calls; whether the library
\* has freed the lists by then is its own business (freed or not freed)
SetupFilters(i) ==
    /\ handles[i].pc = "codecs"
    /\ \/ handles' = [handles EXCEPT ![i].pc = "filters"]
       \/ handles' = [handles EXCEPT ![i] = ReturnErr(@, "avfilter_graph_alloc", {})]
       \/ \E failed_at \in {"create_filter", "avfilter_inout_alloc", "config"} :
            handles' = [handles EXCEPT ![i] =
                           ReturnErr(Construct(@, "FilterGraph", "codecs"), failed_at, {})]
       \/ \E loose \in {{}, {"inputs", "outputs"}} :
            handles' = [handles EXCEPT ![i] =
                           ReturnErr(Construct(@, "FilterGraph", "codecs"),
                                     "avfilter_graph_parse_ptr", loose)]
       \/ handles' = [handles EXCEPT ![i] = Construct(@, "FilterGraph", "filters")]
    /\ UNCHANGED <<engineVars, cache, chat, pipe, sink, limiter, quota>>

\* OutputContext::open: every failure frees by hand what was allocated
OpenOutput(i) ==
    /\ handles[i].pc = "filters"
    /\ \/ \E failed_at \in {"avformat_alloc_output_context2", "av_malloc",
                              "avio_alloc_context"} :
            handles' = [handles EXCEPT ![i] = ReturnErr(@, failed_at, {})]
       \/ handles' = [handles EXCEPT ![i] = Construct(@, "OutputContext", "output")]
    /\ UNCHANGED <<engineVars, cache, chat, pipe, sink, limiter, quota>>

\* Packet::new and Frame::new for the processing loop
AllocFrames(i) ==
    /\ handles[i].pc = "output"
    /\ \/ handles' = [handles EXCEPT ![i] = ReturnErr(@, "Frame::new", {})]
       \/ handles' = [handles EXCEPT ![i] = Construct(@, "frames", "run")]
    /\ UNCHANGED <<engineVars, cache, chat, pipe, sink, limiter, quota>>

\* the processing loop and the flushes: an error, or Ok(result)
RunPipeline(i) ==
    /\ handles[i].pc = "run"
    /\ \/ handles' = [handles EXCEPT ![i] = ReturnErr(@, "processing", {})]
       \/ handles' = [handles EXCEPT ![i] = [DropAll(@) EXCEPT !.pc = "done"]]
    /\ UNCHANGED <<engineVars, cache, chat, pipe, sink, limiter, quota>>

NextHandles ==
    \E i \in Invocations :
        \/ OpenInput(i)
        \/ NewCodecs(i)
        \/ SetupFilters(i)
        \/ OpenOutput(i)
        \/ AllocFrames(i)
        \/ RunPipeline(i)

(***************************************************************************)
(* The web front end's rate limiter for one client IP: the sorted set      *)
(* rate_limit:ip:<ip> in Redis (member = score = the second of arrival),   *)
(* the clock in seconds, and the requests inside check_ip_limit            *)
(***************************************************************************)
\* the limit of 10 requests and the window of 60 seconds, scaled down
IpLimit == 2

Window == 2

MaxTime == 3

NVisits == 2

Visits == 1..NVisits

MaxPassed == IpLimit + 1

EmptyLimiter ==
    [clock |-> 0, zset |-> {}, expires |-> -1, passed |-> <<>>,
     reqs |-> [v \in Visits |-> [pc |-> "idle", now |-> 0, count |-> 0]]]

\* ZREMRANGEBYSCORE key 0 max
zrembyscore(zset, max) == {m \in zset : m > max}

\* ZADD key score member with member = score = now: a set of seconds
zadd(zset, now) == zset \cup {now}

\* rate_limit_middleware reads the clock and enters check_ip_limit
RateLimitEnter(v) ==
    /\ limiter.reqs[v].pc = "idle"
    /\ Len(limiter.passed) < MaxPassed
    /\ limiter' = [limiter EXCEPT !.reqs[v] = [pc |-> "zrembyscore", now |-> limiter.clock,
                                                count |-> 0]]
    /\ UNCHANGED <<engineVars, cache, chat, pipe, sink, handles, quota>>

\* remove old entries: window_start = now - 60
RemoveOld(v) ==
    /\ limiter.reqs[v].pc = "zrembyscore"
    /\ limiter' = [limiter EXCEPT !.zset = zrembyscore(@, limiter.reqs[v].now - Window),
                                   !.reqs[v].pc = "zcard"]
    /\ UNCHANGED <<engineVars, cache, chat, pipe, sink, handles, quota>>

\* count current requests; 429 if the count has reached the limit
CountCurrent(v) ==
    /\ limiter.reqs[v].pc = "zcard"
    /\ IF Cardinality(limiter.zset) >= IpLimit
       THEN limiter' = [limiter EXCEPT !.reqs[v].pc = "idle"]
       ELSE limiter' = [limiter EXCEPT !.reqs[v].pc = "zadd",
                                       !.reqs[v].count = Cardinality(limiter.zset)]
    /\ UNCHANGED <<engineVars, cache, chat, pipe, sink, handles, quota>>

\* add current request
AddCurrent(v) ==
    /\ limiter.reqs[v].pc = "zadd"
    /\ limiter' = [limiter EXCEPT !.zset = zadd(@, limiter.reqs[v].now),
                                   !.reqs[v].pc = "expire"]
    /\ UNCHANGED <<engineVars, cache, chat, pipe, sink, handles, quota>>

\* set expiry, return Ok(()): the request passes the IP limit
SetExpiry(v) ==
    /\ limiter.reqs[v].pc = "expire"
    /\ limiter' = [limiter EXCEPT !.expires = limiter.clock + Window,
                                   !.passed = Append(@, limiter.reqs[v].now),
                                   !.reqs[v].pc = "idle"]
    /\ UNCHANGED <<engineVars, cache, chat, pipe, sink, handles, quota>>

\* a second passes; Redis drops the key when its expiry is reached
Tick ==
    /\ limiter.clock < MaxTime
    /\ limiter' = [limiter EXCEPT !.clock = @ + 1,
                                   !.zset = IF limiter.expires = limiter.clock + 1
                                            THEN {} ELSE @]
    /\ UNCHANGED <<engineVars, cache, chat, pipe, sink, handles, quota>>

NextLimiter ==
    \/ Tick
    \/ \E v \in Visits :
          \/ RateLimitEnter(v)
          \/ RemoveOld(v)
          \/ CountCurrent(v)
          \/ AddCurrent(v)
          \/ SetExpiry(v)

(***************************************************************************)
(* The web front end's chat form for one session: the Redis counter        *)
(* session_requests:<session>, the number of calls of the chat API, and    *)
(* the requests inside chat_form_handler                                   *)
(***************************************************************************)
\* 20 requests per session, scaled down
SessionQuota == 2

NForms == 2

Forms == 1..NForms

MaxForwarded == SessionQuota + 1

EmptyQuota ==
    [used |-> 0, forwarded |-> 0,
     reqs |-> [f \in Forms |-> [pc |-> "idle", remaining |-> 0]]]

\* get_session_requests_remaining: 20 - used
get_session_requests_remaining(used) == SessionQuota - used

\* check if the user has requests remaining
CheckRemaining(f) ==
    /\ quota.reqs[f].pc = "idle"
    /\ quota.forwarded < MaxForwarded
    /\ LET remaining == get_session_requests_remaining(quota.used) IN
       quota' = [quota EXCEPT !.reqs[f] = [pc |-> IF remaining <= 0 THEN "idle" ELSE "chat",
                                           remaining |-> remaining]]
    /\ UNCHANGED <<engineVars, cache, chat, pipe, sink, handles, limiter>>

\* chat(State(state), Json(chat_request)): Ok, or Err and the redirect to
\* /?error=chat_failed
CallChat(f) ==
    /\ quota.reqs[f].pc = "chat"
    /\ \E ok \in BOOLEAN :
         quota' = [quota EXCEPT !.forwarded = @ + 1,
                                !.reqs[f].pc = IF ok THEN "store" ELSE "idle"]
    /\ UNCHANGED <<engineVars, cache, chat, pipe, sink, handles, limiter>>

\* store both messages for the HTML interface; an error answers 503
StoreMessages(f) ==
    /\ quota.reqs[f].pc = "store"
    /\ \E ok \in BOOLEAN :
         quota' = [quota EXCEPT !.reqs[f].pc = IF ok THEN "decrement" ELSE "idle"]
    /\ UNCHANGED <<engineVars, cache, chat, pipe, sink, handles, limiter>>

\* decrement_session_requests: INCR the counter, redirect to /
DecrementSessionRequests(f) ==
    /\ quota.reqs[f].pc = "decrement"
    /\ quota' = [quota EXCEPT !.used = @ + 1, !.reqs[f].pc = "idle"]
    /\ UNCHANGED <<engineVars, cache, chat, pipe, sink, handles, limiter>>

NextQuota ==
    \E f \in Forms :
        \/ CheckRemaining(f)
        \/ CallChat(f)
        \/ StoreMessages(f)
        \/ DecrementSessionRequests(f)

(***************************************************************************)
(* The service: requests, storage, remote origin, processor                *)
(***************************************************************************)
\* AudioBuffer: the bytes, and the Params they were rendered with (if any)
SourceBlob(key) == [bytes |-> <<"audio">> \o key, params |-> None]

ErrorPage(key) == [bytes |-> <<"404 page">> \o key, params |-> None]

Processed(blob, params) == [bytes |-> blob.bytes, params |-> Some(params)]

RemoteKey == <<"https:", "/", "/", "h", "/", "a.mp3">>

\* the request URLs the clients send: uri path and raw query pairs
ServiceUrls ==
    { [path |-> <<"/", "a.mp3">>, query |-> << <<(<<"format">>), "wav">> >>],
      [path |-> <<"/", "a.mp3">>,
       query |-> << <<(<<"format">>), "wav">>, <<(<<"volume">>), "0.8">> >>],
      [path |-> <<"/", "b.mp3">>, query |-> <<>>],
      [path |-> <<"/">> \o RemoteKey, query |-> <<>>],
      [path |-> <<"/", "a.mp3">>, query |-> << <<(<<"encoded">>), "invalid-base64!">> >>] }

\* Params values handed to the handler by an in-process caller
CallParams == { DefaultParams(RemoteKey) }

\* what the remote origin may answer to reqwest::get
RemoteOutcomes == {"ok", "status404", "connect_error", "body_error"}

IdleReq ==
    [pc |-> "idle", entry |-> "none", uri_path |-> <<>>, query |-> <<>>,
     params |-> DefaultParams(<<>>), params_hash |-> SourceKey(<<>>),
     blob |-> None, processed |-> None, status |-> 0, body |-> None,
     invoked |-> FALSE, fetched |-> "none", source_missing |-> FALSE,
     pipeline_ok |-> FALSE, stored_before |-> FALSE,
     disconnected |-> "no", rejected |-> FALSE, after_abandoned |-> FALSE]

\* ProcessorSettings.concurrency, as the benches configure it
\* (benches/streaming_engine.rs:184, :241)
Concurrency == 2

AdmissionConcurrency == 1

\* the depth of the admission wait queue
QueueDepth == 1

NoInput == [kind |-> "none"]

NoOutput == [done |-> FALSE]

InitService ==
    /\ req = [r \in Reqs |-> IdleReq]
    /\ storage = [k \in {SourceKey(<<"a.mp3">>)} |-> SourceBlob(<<"a.mp3">>)]
    /\ invocations = 0
    /\ completed = {}
    /\ semaphore = Concurrency

InitOthers ==
    /\ cache = EmptyCache
    /\ chat = IdleChat
    /\ pipe = IdlePipe
    /\ sink = EmptySink
    /\ handles = NoHandles
    /\ limiter = EmptyLimiter
    /\ quota = EmptyQuota

Init ==
    /\ InitService
    /\ pin = NoInput
    /\ pout = NoOutput
    /\ InitOthers

Respond(r, status, body) ==
    [req[r] EXCEPT !.pc = "done", !.status = status, !.body = body]

\* streamingpath_handler, line 20: the result key of the request's Params
Enter(r, entry, uri_path, query, params) ==
    \E horder \in DisplayOrders(params) :
        req' = [req EXCEPT ![r] =
                   [req[r] EXCEPT !.pc = "lookup", !.entry = entry,
                                  !.uri_path = uri_path, !.query = query,
                                  !.params = params,
                                  !.params_hash = suffix_result_storage_hasher(params, horder),
                                  !.stored_before = params \in completed,
                                  !.after_abandoned =
                                      \E q \in DOMAIN req :
                                         /\ req[q].pc = "gone"
                                         /\ req[q].disconnected = "processing"
                                         /\ req[q].pipeline_ok
                                         /\ req[q].params = params]]

\* GET /{*streamingpath}: the Params extractor, then the handler up to its
\* first await   (params.rs:35-58, streamingpath.rs:16-21)
Extract(r, url) ==
    \E order \in Orders(DOMAIN CollectQuery(url.query)) :
        LET res == from_request_parts(url.path, url.query, order)
        IN IF res.ok
           THEN Enter(r, "http", url.path, url.query, res.v)
           ELSE req' = [req EXCEPT ![r] =
                           [Respond(r, res.status, None) EXCEPT
                               !.entry = "http", !.uri_path = url.path,
                               !.query = url.query]]

HttpRequest(r) ==
    /\ req[r].pc = "idle"
    /\ \E url \in ServiceUrls : Extract(r, url)
    /\ UNCHANGED <<storage, invocations, completed, semaphore, pin, pout, cache, chat, pipe, restVars>>

\* streamingpath_handler called with a Params value   (streamingpath.rs:16-21)
HandlerCall(r) ==
    /\ req[r].pc = "idle"
    /\ \E params \in CallParams : Enter(r, "call", <<>>, <<>>, params)
    /\ UNCHANGED <<storage, invocations, completed, semaphore, pin, pout, cache, chat, pipe, restVars>>

\* state.storage.get(&params_hash)   (streamingpath.rs:21-34)
Lookup(r) ==
    /\ req[r].pc = "lookup"
    /\ req' = [req EXCEPT ![r] =
                  IF req[r].params_hash \in DOMAIN storage
                  THEN Respond(r, 200, Some(storage[req[r].params_hash]))
                  ELSE [req[r] EXCEPT !.pc = "fetch"]]
    /\ UNCHANGED <<storage, invocations, completed, semaphore, pin, pout, cache, chat, pipe, restVars>>

IsRemote(key) ==
    StartsWith(key, <<"https:", "/", "/">>) \/ StartsWith(key, <<"http:", "/", "/">>)

\* the source fetch   (streamingpath.rs:36-66)
Fetch(r) ==
    /\ req[r].pc = "fetch"
    /\ LET key == req[r].params.key
       IN IF IsRemote(key)
          THEN \E outcome \in RemoteOutcomes :
                 req' = [req EXCEPT ![r] =
                    CASE outcome = "connect_error" ->
                           [Respond(r, 404, None) EXCEPT !.fetched = "http"]
                      [] outcome = "body_error" ->
                           [Respond(r, 500, None) EXCEPT !.fetched = "http"]
                      [] outcome = "status404" ->
                           [req[r] EXCEPT !.pc = "process", !.fetched = "http",
                                          !.source_missing = TRUE,
                                          !.blob = Some(ErrorPage(key))]
                      [] OTHER ->
                           [req[r] EXCEPT !.pc = "process", !.fetched = "http",
                                          !.blob = Some(SourceBlob(key))]]
          ELSE req' = [req EXCEPT ![r] =
                    IF SourceKey(key) \in DOMAIN storage
                    THEN [req[r] EXCEPT !.pc = "process", !.fetched = "storage",
                                        !.blob = Some(storage[SourceKey(key)])]
                    ELSE [Respond(r, 404, None) EXCEPT !.fetched = "storage",
                                                       !.source_missing = TRUE]]
    /\ UNCHANGED <<storage, invocations, completed, semaphore, pin, pout, cache, chat, pipe, restVars>>

\* state.processor.process(&blob, &params) is called   (streamingpath.rs:68)
\* The admission semaphore (spec 4.I): a counting semaphore
HasPermit_always(sem) == TRUE

HasPermit(sem) == sem > 0

Acquire(sem) == sem - 1

Release_leak(sem) == sem

Release(sem) == sem + 1

\* The processor takes a permit of its semaphore first; process_audio then
\* hands the pipeline to a blocking worker   (ffmpeg.rs:136-148)
ProcessStart(r) ==
    /\ req[r].pc \in {"process", "queued"}
    /\ HasPermit(semaphore)
    /\ semaphore' = Acquire(semaphore)
    /\ req' = [req EXCEPT ![r] = [req[r] EXCEPT !.pc = "processing", !.invoked = TRUE]]
    /\ invocations' = invocations + 1
    /\ UNCHANGED <<storage, completed, pin, pout, cache, chat, pipe, restVars>>

\* the requests waiting for a permit
Waiting == {q \in DOMAIN req : req[q].pc = "queued"}

\* no permit is free and the wait queue has room: the request waits
Enqueue(r) ==
    /\ req[r].pc = "process"
    /\ ~HasPermit(semaphore)
    /\ Cardinality(Waiting) < QueueDepth
    /\ req' = [req EXCEPT ![r] = [req[r] EXCEPT !.pc = "queued"]]
    /\ UNCHANGED <<storage, invocations, completed, semaphore, pin, pout, cache, chat, pipe, restVars>>

\* no permit is free and the wait queue is full: process returns an error,
\* which the handler answers like every processor error
\* (streamingpath.rs:68-74)
Reject(r) ==
    /\ req[r].pc = "process"
    /\ ~HasPermit(semaphore)
    /\ Cardinality(Waiting) >= QueueDepth
    /\ req' = [req EXCEPT ![r] = [Respond(r, 500, None) EXCEPT !.rejected = TRUE]]
    /\ UNCHANGED <<storage, invocations, completed, semaphore, pin, pout, cache, chat, pipe, restVars>>

\* ... and returns   (streamingpath.rs:68-74)
ProcessEnd(r) ==
    /\ req[r].pc = "processing"
    /\ \E ok \in BOOLEAN :
         req' = [req EXCEPT ![r] =
                    IF ok
                    THEN [req[r] EXCEPT !.pc = "put", !.pipeline_ok = TRUE,
                             !.processed = Some(Processed(req[r].blob.v, req[r].params))]
                    ELSE Respond(r, 500, None)]
    /\ semaphore' = Release(semaphore)
    /\ UNCHANGED <<storage, invocations, completed, pin, pout, cache, chat, pipe, restVars>>

\* a failed storage.put answers 500   (streamingpath.rs:76-86)
PutFailed(r) == Respond(r, 500, None)

\* state.storage.put(&params_hash, &processed_blob), then the response
\* (streamingpath.rs:76-96)
Put(r) ==
    /\ req[r].pc = "put"
    /\ \E ok \in BOOLEAN :
         IF ok
         THEN /\ storage' = [k \in (DOMAIN storage) \cup {req[r].params_hash} |->
                                IF k = req[r].params_hash THEN req[r].processed.v
                                ELSE storage[k]]
              /\ completed' = completed \cup {req[r].params}
              /\ req' = [req EXCEPT ![r] = Respond(r, 200, req[r].processed)]
         ELSE /\ req' = [req EXCEPT ![r] = PutFailed(r)]
              /\ UNCHANGED <<storage, completed>>
    /\ UNCHANGED <<invocations, semaphore, pin, pout, cache, chat, pipe, restVars>>

\* The client goes away while the handler is suspended at an await: the
\* handler's future is dropped where it stands.  A pipeline already handed
\* to the blocking pool keeps running   (ffmpeg.rs:136-148), and keeps its
\* admission slot until it ends.
Disconnect(r) ==
    /\ req[r].pc \in {"lookup", "fetch", "queued", "processing", "put"}
    /\ req' = [req EXCEPT ![r] =
                  [req[r] EXCEPT !.pc = IF req[r].pc = "processing" THEN "abandoned"
                                        ELSE "gone",
                                 !.disconnected = req[r].pc]]
    /\ UNCHANGED <<storage, invocations, completed, semaphore, pin, pout, cache, chat, pipe, restVars>>

\* the pipeline of a dropped request ends: nobody awaits its JoinHandle, the
\* bytes are dropped and the slot is released
WorkerEnd(r) ==
    /\ req[r].pc = "abandoned"
    /\ \E ok \in BOOLEAN :
         req' = [req EXCEPT ![r] = [req[r] EXCEPT !.pc = "gone", !.pipeline_ok = ok]]
    /\ semaphore' = Release(semaphore)
    /\ UNCHANGED <<storage, invocations, completed, pin, pout, cache, chat, pipe, restVars>>

Next ==
    \/ \E r \in Reqs : HttpRequest(r)
    \/ \E r \in Reqs : HandlerCall(r)
    \/ \E r \in Reqs : Lookup(r)
    \/ \E r \in Reqs : Fetch(r)
    \/ \E r \in Reqs : ProcessStart(r)
    \/ \E r \in Reqs : ProcessEnd(r)
    \/ \E r \in Reqs : Put(r)
    \/ \E r \in Reqs : Disconnect(r)
    \/ \E r \in Reqs : WorkerEnd(r)

Spec == Init /\ [][Next]_vars

\* the native handles of concurrent pipeline invocations
SpecHandles == Init /\ [][NextHandles]_vars

\* the rate limiter on its own
SpecLimiter == Init /\ [][NextLimiter]_vars

\* the chat form's session quota on its own
SpecQuota == Init /\ [][NextQuota]_vars

\* the output sink on its own
SpecSink == Init /\ [][NextSink]_vars

\* one run of the transcoding pipeline
SpecPipe == Init /\ [][NextPipe]_vars

\* the gateway's chat endpoint on its own
SpecChat == Init /\ [][NextChat]_vars

\* the result cache on its own
SpecCache == Init /\ [][NextCache]_vars

(***************************************************************************)
(* The service under load: more clients than permits, one URL              *)
(***************************************************************************)
NClients == 3

Clients == 1..NClients

AdmissionUrls ==
    { [path |-> <<"/", "a.mp3">>, query |-> << <<(<<"format">>), "wav">> >>] }

\* the same request, from the clients of the loaded service
AdmissionRequest(r) ==
    /\ req[r].pc = "idle"
    /\ \E url \in AdmissionUrls : Extract(r, url)
    /\ UNCHANGED <<storage, invocations, completed, semaphore, pin, pout, cache, chat, pipe, restVars>>

InitAdmission ==
    /\ req = [r \in Clients |-> IdleReq]
    /\ storage = [k \in {SourceKey(<<"a.mp3">>)} |-> SourceBlob(<<"a.mp3">>)]
    /\ invocations = 0
    /\ completed = {}
    /\ semaphore = AdmissionConcurrency
    /\ pin = NoInput
    /\ pout = NoOutput
    /\ InitOthers

NextAdmission ==
    \/ \E r \in Clients : AdmissionRequest(r)
    \/ \E r \in Clients : Lookup(r)
    \/ \E r \in Clients : Fetch(r)
    \/ \E r \in Clients : ProcessStart(r)
    \/ \E r \in Clients : Enqueue(r)
    \/ \E r \in Clients : Reject(r)
    \/ \E r \in Clients : ProcessEnd(r)
    \/ \E r \in Clients : Put(r)
    \/ \E r \in Clients : Disconnect(r)
    \/ \E r \in Clients : WorkerEnd(r)

SpecAdmission == InitAdmission /\ [][NextAdmission]_vars

\* a pipeline on the blocking pool runs to its end, whether or not the
\* request that started it is still there
FairAdmission ==
    /\ SpecAdmission
    /\ \A r \in Clients : WF_vars(ProcessEnd(r)) /\ WF_vars(WorkerEnd(r))

(***************************************************************************)
(* The gateway's session middleware   (middleware/session.rs)              *)
(***************************************************************************)
\* a Cookie header is a string of fragments; NonAscii stands for a byte that
\* HeaderValue::to_str rejects
NonAscii == "\\xff"

to_str(value) ==
    IF \E i \in 1..Len(value) : value[i] = NonAscii THEN Err("ToStrError") ELSE Ok(value)

\* str::trim
RECURSIVE TrimStart(_)
TrimStart(s) == IF s # <<>> /\ Head(s) = " " THEN TrimStart(Tail(s)) ELSE s

RECURSIVE TrimEnd(_)
TrimEnd(s) ==
    IF s # <<>> /\ s[Len(s)] = " " THEN TrimEnd(SubSeq(s, 1, Len(s) - 1)) ELSE s

trim(s) == TrimEnd(TrimStart(s))

\* str::strip_prefix
strip_prefix(s, prefix) ==
    IF StartsWith(s, prefix) THEN Some(SubSeq(s, Len(prefix) + 1, Len(s))) ELSE None

\* str::contains
contains(s, pat) ==
    \E i \in 1..(Len(s) - Len(pat) + 1) : SubSeq(s, i, i + Len(pat) - 1) = pat

\* the first cookie of the list that starts with session_id=   (session.rs:37-42)
RECURSIVE FirstSessionCookie(_)
FirstSessionCookie(cookies) ==
    IF cookies = <<>> THEN None
    ELSE LET session_value == strip_prefix(trim(Head(cookies)), <<"session_id=">>)
         IN IF session_value.some THEN session_value
            ELSE FirstSessionCookie(Tail(cookies))

\* extract_or_create_session   (session.rs:33-46), uuid the value Uuid::new_v4
\* would give
extract_or_create_session(headers, uuid) ==
    LET found == IF headers.cookie.some /\ to_str(headers.cookie.v).ok
                 THEN FirstSessionCookie(Split(to_str(headers.cookie.v).v, ";"))
                 ELSE None
    IN IF found.some THEN found.v ELSE uuid

\* has_session_cookie   (session.rs:48-55)
has_session_cookie(headers) ==
    IF headers.cookie.some /\ to_str(headers.cookie.v).ok
    THEN contains(to_str(headers.cookie.v).v, <<"session_id=">>)
    ELSE FALSE

\* session_middleware   (session.rs:11-31): the id the handler finds in the
\* request extensions and the Set-Cookie header of the response
session_middleware(headers, uuid) ==
    LET session_id == extract_or_create_session(headers, uuid)
        is_new_session == ~has_session_cookie(headers)
    IN [extension  |-> session_id,
        set_cookie |-> IF is_new_session
                       THEN Some(<<"session_id=">> \o session_id
                                 \o <<"; HttpOnly; SameSite=Lax; Path=/; Max-Age=86400">>)
                       ELSE None]

(***************************************************************************)
(* The pure functions on their own: the extractor and merge_with           *)
(***************************************************************************)
MaxQueryLen == 2

ParsePaths ==
    { <<"/", "a.mp3">>,
      <<"/", "dir", "/", "a.mp3">>,
      <<"/">> \o RemoteKey,
      <<"/", "meta", "data.mp3">>,          \* "/metadata.mp3"
      <<"/", "params", "/", "a.mp3">> }

QueryPairPool ==
    { <<(<<"format">>), "wav">>, <<(<<"format">>), "flac">>,
      <<(<<"volume">>), "0.8">>,
      <<(<<"channels">>), "0">>, <<(<<"channels">>), "2">>, <<(<<"channels">>), "9">>,
      <<(<<"sample_rate">>), "5">>, <<(<<"sample_rate">>), "48000">>,
      <<(<<"sample_rate">>), "abc">>,
      <<(<<"speed">>), "2">>, <<(<<"speed">>), "-1">>, <<(<<"speed">>), "NaN">>,
      <<(<<"speed">>), "inf">>,
      <<(<<"reverse">>), "1">>,
      <<(<<"tag_", "a">>), "x">>, <<(<<"tag_", "tag_", "a">>), "y">>,
      <<(<<"filter_", "1">>), "f1">>, <<(<<"filter_", "2">>), "f2">>,
      <<(<<"option_", "1">>), "o1">>,
      <<(<<"custom_filters">>), "z">> }
    \cup { <<(<<"encoded">>), e>> : e \in EncodedValues }

ParseInputs ==
    { [kind |-> "parse", uri_path |-> p, query_pairs |-> q] :
        p \in ParsePaths,
        q \in UNION { [1..n -> QueryPairPool] : n \in 0..MaxQueryLen } }

TagMaps ==
    { EmptyMap,
      [k \in {<<"a">>} |-> "x"],
      [k \in {<<"a">>, <<"c">>} |-> IF k = <<"a">> THEN "y" ELSE "z"] }

ParamsPool ==
    { [key            |-> key,
       opt            |-> [f \in ScalarFields |->
                              CASE f = "format" -> fm
                                [] f = "sample_rate" -> sr
                                [] OTHER -> None],
       custom_filters |-> cf,
       custom_options |-> None,
       tags           |-> tg] :
        key \in {<<>>, <<"b.mp3">>},
        fm \in {None, Some(Fmt("wav")), Some(Fmt("flac"))},
        sr \in {None, Some(I32(48000))},
        cf \in {None, Some(<<>>), Some(<<"f1">>), Some(<<"f2", "f3">>)},
        tg \in {None} \cup {Some(m) : m \in TagMaps} }

MergeInputs == { [kind |-> "merge", b |-> b, o |-> o] : b \in ParamsPool, o \in ParamsPool }

\* the Params of test_encode_decode, test_encode_decode_empty_params and
\* test_encode_decode_with_tags_and_filters (params.rs:941-1000), and the
\* Params the extractor yields for /a.mp3?speed=2 and /a.mp3?speed=inf
EncodeParams ==
    { DefaultParams(<<"test.mp3">>),
      [DefaultParams(<<"test.mp3">>) EXCEPT
          !.opt["format"] = Some(Fmt("wav")), !.opt["volume"] = Some(F64(800)),
          !.opt["reverse"] = Some(Bool(TRUE)), !.opt["lowpass"] = Some(F64(1000000))],
      [DefaultParams(<<"test.mp3">>) EXCEPT
          !.opt["format"] = Some(Fmt("flac")), !.opt["sample_rate"] = Some(I32(48000)),
          !.custom_filters = Some(<<"f1">>), !.custom_options = Some(<<"o1">>),
          !.tags = Some([k \in {<<"a">>, <<"c">>} |-> IF k = <<"a">> THEN "x" ELSE "z"])],
      from_path(<<"a.mp3">>, [k \in {<<"speed">>} |-> "2"], <<(<<"speed">>)>>).v,
      from_path(<<"a.mp3">>, [k \in {<<"speed">>} |-> "inf"], <<(<<"speed">>)>>).v }

EncodeInputs == { [kind |-> "encode", p |-> p] : p \in EncodeParams }

\* Params values that are rendered as a query string and parsed back
RenderParams ==
    { DefaultParams(<<"a.mp3">>),
      [DefaultParams(<<"a.mp3">>) EXCEPT
          !.opt["format"] = Some(Fmt("wav")), !.opt["volume"] = Some(F64(800))],
      [DefaultParams(<<"a.mp3">>) EXCEPT
          !.opt["sample_rate"] = Some(I32(48000)), !.opt["reverse"] = Some(Bool(TRUE)),
          !.opt["echo"] = Some(Str("0.6:0.3:1000:0.3"))],
      [DefaultParams(<<"a.mp3">>) EXCEPT
          !.opt["format"] = Some(Fmt("flac")),
          !.tags = Some([k \in {<<"a">>, <<"c">>} |-> IF k = <<"a">> THEN "x" ELSE "a b"])],
      [DefaultParams(<<"a.mp3">>) EXCEPT !.custom_filters = Some(<<"f1">>)],
      [DefaultParams(<<"a.mp3">>) EXCEPT
          !.opt["format"] = Some(Fmt("wav")), !.custom_options = Some(<<"o1", "o2">>)] }

RenderInputs == { [kind |-> "render", p |-> p] : p \in RenderParams }

\* a request that names a preset, sent to the engine as it is ("direct") or
\* built by the gateway from a tool call ("gateway"), with other fields or not
PresetInputs ==
    { [kind |-> "preset", via |-> via, effect |-> e, name |-> n, query_pairs |-> q] :
        via \in {"direct", "gateway"},
        e \in DOMAIN EffectPresets,
        n \in {"light", "medium", "heavy", "Light"},
        q \in {<<>>, << <<(<<"format">>), "wav">> >>} }

\* Params values whose filter string is built: no, some and all named
\* filters, speeds inside and outside [0.5, 2.0], custom filters
FilterSets ==
    { {}, {"volume"}, {"reverse", "normalize"}, {"cross_fade", "lowpass", "echo"},
      {"fade_out", "fade_in", "treble", "bass"},
      {FilterFields[i] : i \in 2..Len(FilterFields)} }

FilterValue(f) ==
    IF f \in BoolFields THEN Some(Bool(TRUE))
    ELSE IF f \in StrFields THEN Some(Str("0.6:0.3:1000:0.3"))
    ELSE Some(F64(500))

FilterParams ==
    { [key            |-> <<"a.mp3">>,
       opt            |-> [f \in ScalarFields |->
                              IF f = "speed" THEN sp
                              ELSE IF f \in on THEN FilterValue(f) ELSE None],
       custom_filters |-> cf,
       custom_options |-> None,
       tags           |-> None] :
        on \in FilterSets,
        sp \in {None, Some(F64(250)), Some(F64(500)), Some(F64(1000)), Some(F64(2000)),
                Some(F64(4000))},
        cf \in {None, Some(<<"f1">>), Some(<<"volume=2", "f1">>)} }

FilterInputs == { [kind |-> "filters", p |-> p] : p \in FilterParams }

MaxCookieLen == 4

CookieFragments == {"session_id=", "s1", "x", ";", " ", NonAscii}

Uuids == { <<"uuid1">>, <<"uuid2">> }

SessionInputs ==
    { [kind |-> "session", headers |-> [cookie |-> c], uuid |-> u] :
        c \in {None} \cup { Some(v) : v \in UNION { [1..n -> CookieFragments] :
                                                     n \in 0..MaxCookieLen } },
        u \in Uuids }

InitParse ==
    /\ InitService
    /\ pin \in ParseInputs \cup MergeInputs \cup EncodeInputs \cup RenderInputs
               \cup PresetInputs \cup FilterInputs \cup SessionInputs
    /\ pout = NoOutput
    /\ InitOthers

\* one extraction of Params from a request
ParseStep ==
    /\ pin.kind = "parse"
    /\ ~pout.done
    /\ \E order \in Orders(DOMAIN CollectQuery(pin.query_pairs)) :
         pout' = [done |-> TRUE,
                  res |-> from_request_parts(pin.uri_path, pin.query_pairs, order)]
    /\ UNCHANGED <<req, storage, invocations, completed, semaphore, pin, cache, chat, pipe, restVars>>

\* one base.merge_with(other)
MergeStep ==
    /\ pin.kind = "merge"
    /\ ~pout.done
    /\ pout' = [done |-> TRUE, res |-> merge_with(pin.b, pin.o)]
    /\ UNCHANGED <<req, storage, invocations, completed, semaphore, pin, cache, chat, pipe, restVars>>

\* Params::decode(&params.encode().unwrap())
EncodeDecodeStep ==
    /\ pin.kind = "encode"
    /\ ~pout.done
    /\ pout' = [done |-> TRUE, res |-> decode(encode(pin.p).v)]
    /\ UNCHANGED <<req, storage, invocations, completed, semaphore, pin, cache, chat, pipe, restVars>>

\* p.to_string().parse::<Params>() with p's key put back
RenderParseStep ==
    /\ pin.kind = "render"
    /\ ~pout.done
    /\ \E dorder \in DisplayOrders(pin.p) :
         LET rendered == Display(pin.p, dorder)
         IN \E order \in Orders(DOMAIN FromStrQuery(rendered)) :
               LET parsed == from_str(rendered, order)
               IN pout' = [done |-> TRUE,
                           rendered |-> rendered,
                           res |-> IF parsed.ok
                                   THEN Ok([parsed.v EXCEPT !.key = pin.p.key])
                                   ELSE parsed]
    /\ UNCHANGED <<req, storage, invocations, completed, semaphore, pin, cache, chat, pipe, restVars>>

\* the engine ingests ?<effect>=<preset name> and ?<effect>=<the preset's
\* tuple> and computes both result keys, the two renderings in the same order
PresetStep ==
    /\ pin.kind = "preset"
    /\ ~pout.done
    /\ LET sent  == IF pin.via = "gateway"
                    THEN apply_effect_presets(pin.effect, pin.name)
                    ELSE pin.name
           tuple == EffectPresets[pin.effect][ToLowercase(pin.name)]
           qn    == pin.query_pairs \o << <<(<<pin.effect>>), sent>> >>
           qt    == pin.query_pairs \o << <<(<<pin.effect>>), tuple>> >>
       IN \E order \in Orders(DOMAIN CollectQuery(qn)) :
             LET named == from_request_parts(<<"/", "a.mp3">>, qn, order).v
                 tupled == from_request_parts(<<"/", "a.mp3">>, qt, order).v
             IN \E horder \in DisplayOrders(named) :
                   pout' = [done |-> TRUE,
                            res |-> [named |-> named, tupled |-> tupled,
                                     named_hash |-> suffix_result_storage_hasher(named, horder),
                                     tupled_hash |-> suffix_result_storage_hasher(tupled, horder)]]
    /\ UNCHANGED <<req, storage, invocations, completed, semaphore, pin, cache, chat, pipe, restVars>>

\* process_audio builds the filter string of the request's Params
FilterStep ==
    /\ pin.kind = "filters"
    /\ ~pout.done
    /\ pout' = [done |-> TRUE, res |-> collect_filters(pin.p)]
    /\ UNCHANGED <<req, storage, invocations, completed, semaphore, pin, cache, chat, pipe, restVars>>

\* the same request URL goes through the extractor a second time, its query
\* collected into a HashMap of its own
ParseAgainStep ==
    /\ pin.kind = "parse"
    /\ pout.done
    /\ "again" \notin DOMAIN pout
    /\ \E order \in Orders(DOMAIN CollectQuery(pin.query_pairs)) :
         pout' = [done |-> TRUE,
                  res |-> pout.res,
                  again |-> from_request_parts(pin.uri_path, pin.query_pairs, order)]
    /\ UNCHANGED <<req, storage, invocations, completed, semaphore, pin, cache, chat, pipe, restVars>>

\* one request through the gateway's session middleware
SessionStep ==
    /\ pin.kind = "session"
    /\ ~pout.done
    /\ pout' = [done |-> TRUE, res |-> session_middleware(pin.headers, pin.uuid)]
    /\ UNCHANGED <<req, storage, invocations, completed, semaphore, pin, cache, chat, pipe, restVars>>

NextParse ==
    \/ ParseStep
    \/ ParseAgainStep
    \/ SessionStep
    \/ MergeStep
    \/ EncodeDecodeStep
    \/ RenderParseStep
    \/ PresetStep
    \/ FilterStep

SpecParse == InitParse /\ [][NextParse]_vars

(***************************************************************************)
(* Properties of the handler                                               *)
(***************************************************************************)
Entered(r) == req[r].pc \notin {"idle"} /\ req[r].entry # "none" /\ ~(req[r].status = 400)

\* C1: requests with the same Params never have two pipeline runs in progress
\* at once: of N concurrent identical requests for a cold fingerprint exactly
\* one invokes the pipeline and the others wait for it.
C1_SingleFlight ==
    \A r1, r2 \in Reqs :
        (r1 # r2 /\ Entered(r1) /\ Entered(r2) /\ req[r1].params = req[r2].params)
            => ~(req[r1].pc = "processing" /\ req[r2].pc = "processing")

\* C2: a request whose pipeline run succeeded answers 200, also when writing
\* the result failed.
C2_PersistFailureStill200 ==
    \A r \in Reqs :
        (req[r].pc = "done" /\ req[r].pipeline_ok) => req[r].status = 200

ClientKey(r) == Tail(req[r].uri_path)

\* C5: the handler sees the key the client put in the path, fetches it over
\* HTTP when it is an http:// or https:// URL and reads it from storage
\* otherwise.
C5_KeyAndSourceRoute ==
    \A r \in Reqs :
        (req[r].entry = "http" /\ req[r].fetched # "none")
            => /\ req[r].params.key = ClientKey(r)
               /\ (IsRemote(ClientKey(r)) <=> req[r].fetched = "http")

Parsed == pin.kind = "parse" /\ pout.done

Merged == pin.kind = "merge" /\ pout.done

\* the `encoded` value the extractor sees (the last one, if repeated)
HasEncoded == \E i \in 1..Len(pin.query_pairs) : pin.query_pairs[i][1] = <<"encoded">>

EncodedValue ==
    LET i == CHOOSE i \in 1..Len(pin.query_pairs) :
                 /\ pin.query_pairs[i][1] = <<"encoded">>
                 /\ \A j \in (i + 1)..Len(pin.query_pairs) :
                        pin.query_pairs[j][1] # <<"encoded">>
    IN pin.query_pairs[i][2]

\* the blobs that are not URL-safe unpadded base64, not UTF-8, not JSON, or
\* JSON that is no Params
NotBase64 == {"invalid-base64!", "a+b/", "e30="}

NotUtf8 == {"__4"}

NotParamsJson == {"aW52YWxpZCBqc29u", "e30", "eyJrZXkiOjF9", "b64{key:k.mp3,channels:1.5}"}

BadEncoded == NotBase64 \cup NotUtf8 \cup NotParamsJson

\* C7: a request whose `encoded` value is not valid URL-safe base64 of a
\* JSON-serialised Params is rejected with 400 and yields no Params.
C7_BadEncodedRejected ==
    (Parsed /\ HasEncoded /\ EncodedValue \in BadEncoded)
        => (~pout.res.ok /\ pout.res.status = 400)

C7_Witness ==
    /\ Parsed /\ HasEncoded /\ EncodedValue \in NotParamsJson
    /\ Len(pin.query_pairs) = 2
    /\ ~pout.res.ok /\ pout.res.status = 400

InRange(p) ==
    /\ \A f \in F64Fields : p.opt[f].some => p.opt[f].v.cls = "fin"
    /\ p.opt["channels"].some => p.opt["channels"].v.n \in 1..8
    /\ p.opt["sample_rate"].some => p.opt["sample_rate"].v.n \in 8000..192000
    /\ p.opt["speed"].some => p.opt["speed"].v.milli > 0

\* C8: a request with a numeric field outside its range (NaN, infinity,
\* channels outside 1..8, sample_rate outside 8000..192000, speed <= 0) is
\* rejected; every Params the extractor yields is in range.
C8_OutOfRangeRejected ==
    (Parsed /\ pout.res.ok) => InRange(pout.res.v)

BlobKey(e) == JsonOf(e).obj["key"].s

\* C10: the key of the parsed Params comes from the request path (it is the
\* part of the path after its last "/"), whatever key an encoded blob carries.
C10_KeyFromPath ==
    (Parsed /\ pout.res.ok) =>
        LET path == pin.uri_path
            key == pout.res.v.key
        IN \E i \in 2..(Len(path) + 1) :
              /\ key = SubSeq(path, i, Len(path))
              /\ \A j \in 1..Len(key) : key[j] # "/"
              /\ path[i - 1] \in {"/", "meta", "params"}

C10_Witness ==
    /\ Parsed /\ pout.res.ok
    /\ HasEncoded /\ EncodedValue \notin BadEncoded
    /\ BlobKey(EncodedValue) # pout.res.v.key
    /\ pout.res.v.key = <<"a.mp3">>
    /\ pout.res.v.opt["format"].some

(***************************************************************************)
(* Properties of encode / decode and of the query rendering                *)
(***************************************************************************)
Encoded == pin.kind = "encode" /\ pout.done

\* C11: encoded round trip: for every Params value p, decode(encode(p)) is
\* Ok(p), tags, custom_filters and custom_options included.
C11_EncodedRoundTrip ==
    Encoded => pout.res = Ok(pin.p)

Rendered == pin.kind = "render" /\ pout.done

\* C12: query round trip: for every Params value p, parsing the query string
\* rendered from p and restoring p's key yields a value equal to p, whatever
\* fields are set in p.
C12_QueryRoundTrip ==
    Rendered => pout.res = Ok(pin.p)

PresetIngested == pin.kind = "preset" /\ pout.done

\* C13: effect presets collapse: a request naming a preset (light, medium,
\* heavy) for echo, chorus or flanger is ingested as the preset's tuple and
\* gets the same fingerprint as the request that spells the tuple out.
C13_PresetsCollapse ==
    PresetIngested =>
        /\ pout.res.named = pout.res.tupled
        /\ pout.res.named_hash = pout.res.tupled_hash

(***************************************************************************)
(* Properties of admission and of client disconnects                       *)
(***************************************************************************)
\* the requests whose pipeline is running on the blocking pool
Running == {r \in DOMAIN req : req[r].pc \in {"processing", "abandoned"}}

C17_AbandonedResultIsCached ==
    \A r \in DOMAIN req :
        (req[r].after_abandoned /\ req[r].pc # "lookup")
            => (req[r].fetched = "none" /\ ~req[r].invoked)

HasMessage(c, role) ==
    \E i \in 1..Len(chat.msgs[chat.reqs[c].cid]) :
        chat.msgs[chat.reqs[c].cid][i] = [role |-> role, by |-> c]

\* C19: the user's message is in the conversation before the model is
\* called; it is still there, without an assistant message, when the model
\* call has failed; and a request that ends with 200, also one that
\* follows a failed request on the same conversation, has added its user
\* message and then its assistant message.
C19_UserMessageSurvivesFailure ==
    \A c \in ChatReqs :
        LET r == chat.reqs[c] IN
        /\ r.pc \in {"send", "tool", "store_assistant"}
             => (HasMessage(c, "user") /\ ~HasMessage(c, "assistant"))
        /\ r.pc = "send" => \E i \in 1..Len(r.sent) : r.sent[i] = [role |-> "user", by |-> c]
        /\ (r.pc = "failed" /\ r.err = "Claude")
             => (HasMessage(c, "user") /\ ~HasMessage(c, "assistant"))
        /\ r.pc = "done"
             => \E i, j \in 1..Len(chat.msgs[r.cid]) :
                    /\ i < j
                    /\ chat.msgs[r.cid][i] = [role |-> "user", by |-> c]
                    /\ chat.msgs[r.cid][j] = [role |-> "assistant", by |-> c]

C19_Witness ==
    \E c, q \in ChatReqs :
        /\ chat.reqs[q].pc = "failed"
        /\ chat.reqs[q].err = "Claude"
        /\ chat.reqs[c].after_failure
        /\ chat.reqs[c].cid = chat.reqs[q].cid
        /\ chat.reqs[c].pc = "done"
        /\ Len(chat.msgs[chat.reqs[c].cid]) = 3

(***************************************************************************)
(* Properties of the transcoding pipeline                                  *)
(***************************************************************************)
ExpectedDrains(p) ==
    <<"decoder">> \o (IF filter_graph(p) THEN <<"filter">> ELSE <<>>)
                  \o (IF resampler(p) THEN <<"resampler">> ELSE <<>>)
                  \o <<"encoder", "trailer">>

IsPrefix(a, b) == Len(a) <= Len(b) /\ SubSeq(b, 1, Len(a)) = a

\* C20: in every successful pipeline run the drains happen in the order
\* decoder, filter graph (if there is one), resampler (if there is one),
\* encoder, trailer; a stage holds nothing any more when the next stage's
\* drain begins; and the trailer is the last thing written to the output.
C20_DrainOrder ==
    /\ IsPrefix(pipe.drains, ExpectedDrains(pipe))
    /\ pipe.pc \in {"flush_filter", "drain_filter"} => pipe.dec = 0
    /\ pipe.pc \in {"flush_resampler"} => (pipe.dec = 0 /\ pipe.fg = 0)
    /\ pipe.pc \in {"flush_encoder", "drain_encoder"}
         => (pipe.dec = 0 /\ pipe.fg = 0 /\ pipe.rs = 0)
    /\ pipe.pc \in {"trailer", "done"}
         => (pipe.dec = 0 /\ pipe.fg = 0 /\ pipe.rs = 0 /\ pipe.enc = 0)
    /\ pipe.pc = "done" => pipe.drains = ExpectedDrains(pipe)
    /\ \A i \in 1..Len(pipe.out) : pipe.out[i] = "trailer" => (i = Len(pipe.out) /\ pipe.pc = "done")

C20_Witness ==
    /\ pipe.pc = "done"
    /\ filter_graph(pipe)
    /\ pipe.drains = <<"decoder", "filter", "encoder", "trailer">>
    /\ pipe.out = <<"header", "pkt", "pkt", "trailer">>

\* C21: with start_time/duration set, a frame is passed on only if its end
\* index is greater than the start cursor and its start index is less than
\* the end cursor, also for the frames the decoder emits while it is
\* drained at end of input.
C21_TrimmedFramesOnly ==
    \A i \in 1..Len(pipe.fed) :
        /\ pipe.start_samples.some => pipe.fed[i] + 1 > pipe.start_samples.v
        /\ pipe.end_samples.some => pipe.fed[i] < pipe.end_samples.v

(***************************************************************************)
(* Properties of the output sink                                           *)
(***************************************************************************)
\* the last operation wrote buf right after a successful seek to position
\* ret inside the data written before
Patched ==
    /\ sink.last.op = "write"
    /\ sink.last.at.op = "seek"
    /\ sink.last.at.ret >= 0
    /\ sink.last.at.ret < Len(sink.last.before)

\* C22: trailer patching: after a seek to an offset p inside the data
\* already written and a write of n bytes, bytes p..p+n hold the written
\* bytes, the earlier bytes outside that range are unchanged, and so is the
\* length when p+n does not exceed it.
C22_SeekThenWritePatches ==
    Patched =>
        LET p      == sink.last.at.ret
            buf    == sink.last.buf
            before == sink.last.before
        IN /\ Len(sink.data) >= p + Len(buf)
           /\ \A i \in 1..Len(buf) : sink.data[p + i] = buf[i]
           /\ \A i \in 1..Len(before) :
                 (i <= p \/ i > p + Len(buf)) => sink.data[i] = before[i]
           /\ p + Len(buf) <= Len(before) => Len(sink.data) = Len(before)

(***************************************************************************)
(* Properties of the filter string                                         *)
(***************************************************************************)
Collected == pin.kind = "filters" /\ pout.done

FilterList == IF pout.res.some THEN pout.res.v ELSE <<>>

\* the text each named filter starts with, in the order of the chain
FilterOrder ==
    <<"atempo=", "areverse", "volume=", "loudnorm=I=", "lowpass=f=", "highpass=f=",
      "bandpass=", "bass=g=", "treble=g=", "aecho=", "chorus=", "flanger=", "aphaser=",
      "tremolo=", "acompressor=", "anlmdn=", "afade=t=in:d=", "afade=t=out:d=",
      "acrossfade=d=">>

Rank(name) ==
    IF name = "custom" THEN Len(FilterOrder) + 1
    ELSE CHOOSE i \in 1..Len(FilterOrder) : FilterOrder[i] = name

\* C23: the filter string lists the named filters in the fixed order
\* atempo, areverse, volume, loudnorm, lowpass, highpass, bandpass, bass,
\* treble, aecho, chorus, flanger, aphaser, tremolo, acompressor, anlmdn,
\* afade(in), afade(out), acrossfade, and then the custom filters in their
\* given order, every named filter before every custom filter.
C23_FilterOrder ==
    Collected =>
        LET fs     == FilterList
            custom == SelectSeq(fs, LAMBDA x : x.name = "custom")
        IN /\ \A i, j \in 1..Len(fs) :
                 i < j => \/ Rank(fs[i].name) < Rank(fs[j].name)
                          \/ (fs[i].name = "custom" /\ fs[j].name = "custom")
           /\ [i \in 1..Len(custom) |-> custom[i].arg]
                = (IF pin.p.custom_filters.some THEN pin.p.custom_filters.v ELSE <<>>)

C23_Witness ==
    /\ Collected
    /\ Len(FilterList) = Len(FilterOrder) + 2
    /\ FilterList[1].name = "atempo="
    /\ FilterList[Len(FilterOrder)].name = "acrossfade=d="
    /\ FilterList[Len(FilterOrder) + 1].arg = "volume=2"

RECURSIVE ProductMilli(_)
ProductMilli(fs) ==
    IF fs = <<>> THEN 1000 ELSE (Head(fs).arg.milli * ProductMilli(Tail(fs))) \div 1000

\* C24: for a speed above 2.0 or below 0.5 the filter string holds a chain
\* of atempo stages, each within [0.5, 2.0], whose product is the speed.
C24_AtempoChain ==
    (/\ Collected
     /\ pin.p.opt["speed"].some
     /\ pin.p.opt["speed"].v.cls = "fin"
     /\ (pin.p.opt["speed"].v.milli > 2000 \/ pin.p.opt["speed"].v.milli < 500))
    => LET stages == SelectSeq(FilterList, LAMBDA x : x.name = "atempo=")
       IN /\ stages # <<>>
          /\ \A i \in 1..Len(stages) :
                stages[i].arg.milli >= 500 /\ stages[i].arg.milli <= 2000
          /\ ProductMilli(stages) = pin.p.opt["speed"].v.milli

\* C25: with no filter and only a format, rate or layout conversion needed
\* the pipeline uses the resampler and no filter graph; with neither a
\* filter nor a conversion needed it uses neither, and decoded frames go
\* straight to the encoder.
C25_ResamplerWhenOnlyConversion ==
    pipe.pc # "idle" =>
        /\ (~pipe.filters /\ pipe.differs) => (resampler(pipe) /\ ~filter_graph(pipe))
        /\ (~pipe.filters /\ ~pipe.differs) => (~resampler(pipe) /\ ~filter_graph(pipe))

(***************************************************************************)
(* Properties of the native handles                                        *)
(***************************************************************************)
\* C26: every native handle allocated during a pipeline invocation is
\* released on every exit path, also on an error return between the
\* allocation and the construction of the owning wrapper.
C26_HandlesReleased ==
    \A i \in Invocations :
        handles[i].pc \in {"done", "failed"} => handles[i].live = {}

(***************************************************************************)
(* Properties of the web front end                                         *)
(***************************************************************************)
\* C27: for the client IP, in every window of Window seconds at most
\* IpLimit requests pass the rate limiter, under any interleaving and for
\* any arrival times, several requests within the same second included.
C27_IpLimitPerWindow ==
    \A w \in 0..MaxTime + 1 :
        Cardinality({i \in 1..Len(limiter.passed) :
                        limiter.passed[i] >= w /\ limiter.passed[i] < w + Window}) <= IpLimit

\* C28: for the session, the number of chat form requests forwarded to the
\* chat API never exceeds the quota while the request counter is live, also
\* when several requests of the session are handled concurrently.
C28_QuotaNeverExceeded == quota.forwarded <= SessionQuota


\* C29: the session id in the request extensions is the value of a session_id
\* cookie the client sent, or a newly generated id that the same response
\* returns in its Set-Cookie header
SessionDone == pin.kind = "session" /\ pout.done

SentSessionValues ==
    IF pin.headers.cookie.some /\ to_str(pin.headers.cookie.v).ok
    THEN LET parts == Split(pin.headers.cookie.v, ";")
             named == { i \in 1..Len(parts) : StartsWith(trim(parts[i]), <<"session_id=">>) }
         IN { Tail(trim(parts[i])) : i \in named }
    ELSE {}

C29_SessionIdSentOrReturned ==
    SessionDone =>
        \/ pout.res.extension \in SentSessionValues
        \/ /\ pout.res.extension = pin.uuid
           /\ pout.res.set_cookie.some
           /\ StartsWith(pout.res.set_cookie.v, <<"session_id=">> \o pin.uuid)

\* C30: two parses of the same request URL give the same custom_filters and
\* custom_options sequences
C30_SameOrderEveryParse ==
    (pin.kind = "parse" /\ pout.done /\ "again" \in DOMAIN pout /\ pout.res.ok) =>
        /\ pout.again.v.custom_filters = pout.res.v.custom_filters
        /\ pout.again.v.custom_options = pout.res.v.custom_options

====
